---- MODULE Spec2Model ----
(***************************************************************************)
(* A model of the simulation / optimization / compilation pipeline of the  *)
(* quantum circuit builder back end (src/api).                             *)
(*                                                                         *)
(* The module holds four independent state machines over one variable      *)
(* list; each specification moves its own variables and leaves the others  *)
(* at their idle value:                                                    *)
(*   SpecLayout  transpiler/topology.py  Layout.set_mapping / Layout.swap  *)
(*   SpecRoute   transpiler/router.py    SABRERouter.route, and            *)
(*               transpiler/transpiler.py Transpiler.transpile             *)
(*   SpecOpt     optimizer/dag.py, optimizer/passes.py  optimize_circuit   *)
(*   SpecKernel  kernels/statevector.py, kernels/clifford.py               *)
(*                                                                         *)
(* Python dicts are functions with a finite domain, Python lists are       *)
(* sequences, Python sets are sets.  Where the code iterates over a set    *)
(* (whose order CPython does not fix across runs) the model takes every    *)
(* order.                                                                  *)
(***************************************************************************)
EXTENDS Integers, Sequences, FiniteSets, TLC

VARIABLES
    layout,      \* Layout object: [l2p, p2l, err]
    layoutOp,    \* the last Layout operation applied and its arguments
    rt,          \* the router/transpiler run (see RouteInit)
    opt,         \* the optimizer run (see OptInit)
    kern,        \* the two simulation kernels run in lock step (see KernInit)
    vm,          \* the dynamic-circuit VM run (see VmInit)
    exec,        \* the CircuitExecutor run (see ExecInit)
    nz           \* the state-vector kernel with a noise model (see NoiseInit)

vars == <<layout, layoutOp, rt, opt, kern, vm, exec, nz>>

(***************************************************************************)
(* Generic helpers for dicts, lists and sets.                              *)
(***************************************************************************)
Range(f) == {f[x] : x \in DOMAIN f}

\* d[k] = v
DictSet(d, k, v) == [x \in (DOMAIN d) \cup {k} |-> IF x = k THEN v ELSE d[x]]

\* del d[k] (the caller has checked k in d)
DictDel(d, k) == [x \in (DOMAIN d) \ {k} |-> d[x]]

EmptyDict == [x \in {} |-> 0]

SeqToSet(s) == {s[i] : i \in 1..Len(s)}

\* every sequence over S of length lo..hi
SeqsUpTo(S, lo, hi) == UNION {[1..n -> S] : n \in lo..hi}

\* list.remove(x) removes the element at index i (the first equal one)
RemoveAt(s, i) == [j \in 1..(Len(s) - 1) |-> IF j < i THEN s[j] ELSE s[j + 1]]

Max2(a, b) == IF a >= b THEN a ELSE b

Min2(a, b) == IF a <= b THEN a ELSE b

RECURSIVE Pow2(_)
Pow2(n) == IF n = 0 THEN 1 ELSE 2 * Pow2(n - 1)

(***************************************************************************)
(* transpiler/topology.py : Layout                                         *)
(***************************************************************************)

\* Layout.__init__: the reverse map is built from the forward map.  The
\* callers (route, _find_best_swap, transpile) pass injective maps; for one
\* that is not, the dict comprehension keeps one logical qubit per site.
LayoutNew(m) ==
    [l2p |-> m,
     p2l |-> [p \in Range(m) |-> CHOOSE l \in DOMAIN m : m[l] = p],
     err |-> FALSE]

\* Layout.set_mapping.  `del` of a missing key raises KeyError (err).
LayoutSetMapping(L, logical, physical) ==
    LET hasL == logical \in DOMAIN L.l2p
        oldP == L.l2p[logical]
        err1 == hasL /\ oldP \notin DOMAIN L.p2l
        p2l1 == IF hasL /\ ~err1 THEN DictDel(L.p2l, oldP) ELSE L.p2l
        hasP == physical \in DOMAIN p2l1
        oldL == p2l1[physical]
        err2 == hasP /\ oldL \notin DOMAIN L.l2p
        l2p1 == IF hasP /\ ~err2 THEN DictDel(L.l2p, oldL) ELSE L.l2p
    IN  IF err1 \/ err2
        THEN [L EXCEPT !.err = TRUE]
        ELSE [l2p |-> DictSet(l2p1, logical, physical),
              p2l |-> DictSet(p2l1, physical, logical),
              err |-> L.err]

\* The variant of Layout.swap that forgets to delete the stale reverse entry
\* of a site whose partner is unmapped.
LayoutSwapKeepStale(L, physical1, physical2) ==
    LET has1 == physical1 \in DOMAIN L.p2l
        has2 == physical2 \in DOMAIN L.p2l
        l1 == L.p2l[physical1]
        l2 == L.p2l[physical2]
        l2pA == IF has1 THEN DictSet(L.l2p, l1, physical2) ELSE L.l2p
        p2lA == IF has1 THEN DictSet(L.p2l, physical2, l1) ELSE L.p2l
        l2pB == IF has2 THEN DictSet(l2pA, l2, physical1) ELSE l2pA
        p2lB == IF has2 THEN DictSet(p2lA, physical1, l2) ELSE p2lA
    IN  [l2p |-> l2pB, p2l |-> p2lB, err |-> L.err]

\* Layout.swap: l1, l2 are read first (None when the site is unmapped), then
\* the two if/else blocks run in order.
LayoutSwap(L, physical1, physical2) ==
    LET has1 == physical1 \in DOMAIN L.p2l
        has2 == physical2 \in DOMAIN L.p2l
        l1 == L.p2l[physical1]
        l2 == L.p2l[physical2]
        l2pA == IF has1 THEN DictSet(L.l2p, l1, physical2) ELSE L.l2p
        p2lA == IF has1 THEN DictSet(L.p2l, physical2, l1)
                ELSE IF physical2 \in DOMAIN L.p2l THEN DictDel(L.p2l, physical2)
                ELSE L.p2l
        l2pB == IF has2 THEN DictSet(l2pA, l2, physical1) ELSE l2pA
        p2lB == IF has2 THEN DictSet(p2lA, physical1, l2)
                ELSE IF physical1 \in DOMAIN p2lA THEN DictDel(p2lA, physical1)
                ELSE p2lA
    IN  [l2p |-> l2pB, p2l |-> p2lB, err |-> L.err]

\* Layout.get_physical: identity on an unmapped logical qubit
LayoutGetPhysical(L, logical) ==
    IF logical \in DOMAIN L.l2p THEN L.l2p[logical] ELSE logical

\* Layout.get_logical: identity on an unmapped site
LayoutGetLogical(L, physical) ==
    IF physical \in DOMAIN L.p2l THEN L.p2l[physical] ELSE physical

(***************************************************************************)
(* transpiler/topology.py : CouplingMap and HardwareTopology               *)
(***************************************************************************)

\* float('inf'), the distance of an unreachable qubit: larger than any cost
\* a finite distance can add up to.
Inf == 1000000

\* CouplingMap.__init__ from an edge list
CouplingMapNew(edgeList, bidirectional) ==
    LET given == SeqToSet(edgeList)
        nodes == {e[1] : e \in given} \cup {e[2] : e \in given}
        edges == given \cup (IF bidirectional THEN {<<e[2], e[1]>> : e \in given} ELSE {})
    IN  [edges |-> edges,
         adjacency |-> [q \in nodes |-> {e[2] : e \in {f \in edges : f[1] = q}}],
         num_qubits |-> IF given = {} THEN 0
                        ELSE (CHOOSE m \in nodes : \A x \in nodes : x <= m) + 1]

\* CouplingMap.is_connected
IsConnected(cm, q1, q2) == <<q1, q2>> \in cm.edges

\* neighbours read against the direction of the edges as well
NeighborsEitherWay(cm, qubit) ==
    (IF qubit \in DOMAIN cm.adjacency THEN cm.adjacency[qubit] ELSE {})
        \cup {q \in DOMAIN cm.adjacency : qubit \in cm.adjacency[q]}

\* CouplingMap.neighbors
Neighbors(cm, qubit) ==
    IF qubit \in DOMAIN cm.adjacency THEN cm.adjacency[qubit] ELSE {}

\* The BFS of CouplingMap.distance, one queue generation at a time: `frontier`
\* holds the queued qubits at distance `dist` from q1.  A neighbour equal to q2
\* returns dist + 1 before the visited test.
RECURSIVE BfsDistance(_, _, _, _, _)
BfsDistance(cm, q2, frontier, visited, dist) ==
    IF frontier = {} THEN Inf
    ELSE LET nbrs == UNION {Neighbors(cm, c) : c \in frontier}
         IN  IF q2 \in nbrs THEN dist + 1
             ELSE BfsDistance(cm, q2, nbrs \ visited, visited \cup nbrs, dist + 1)

\* CouplingMap.distance
Distance(cm, q1, q2) ==
    IF q1 = q2 THEN 0 ELSE BfsDistance(cm, q2, {q1}, {q1}, 0)

\* every order in which the elements of S can be iterated
RECURSIVE Orders(_)
Orders(S) ==
    IF S = {} THEN {<<>>}
    ELSE UNION {{<<x>> \o t : t \in Orders(S \ {x})} : x \in S}

\* The BFS of CouplingMap.shortest_path.  queue holds <<current, path>>
\* entries; the neighbours of current are iterated in the set's order, a
\* neighbour equal to q2 returns path + [q2], and the unvisited ones are
\* queued in the order met.  Every list the call can return.
RECURSIVE BfsPaths(_, _, _, _)
BfsPaths(cm, q2, queue, visited) ==
    IF queue = <<>> THEN {<<>>}
    ELSE LET current == queue[1][1]
             path == queue[1][2]
             fresh == Neighbors(cm, current) \ visited
         IN  IF q2 \in Neighbors(cm, current) THEN {Append(path, q2)}
             ELSE UNION {BfsPaths(cm, q2,
                                  Tail(queue) \o [i \in 1..Len(o) |->
                                                    <<o[i], Append(path, o[i])>>],
                                  visited \cup fresh) : o \in Orders(fresh)}

\* CouplingMap.shortest_path
ShortestPaths(cm, q1, q2) ==
    IF q1 = q2 THEN {<<q1>>} ELSE BfsPaths(cm, q2, <<(<<q1, <<q1>>>>)>>, {q1})

\* a variant of linear whose edges join qubits two apart
HardwareLinearStride2(n) ==
    CouplingMapNew([i \in 1..(n - 2) |-> <<i - 1, i + 1>>], TRUE)

\* HardwareTopology.linear
HardwareLinear(n) == CouplingMapNew([i \in 1..(n - 1) |-> <<i - 1, i>>], TRUE)

(***************************************************************************)
(* transpiler/router.py : GateOp, SABRERouter                              *)
(***************************************************************************)

\* GateOp (a dataclass: equality is by value).  params is <<>> for None.
GateOp(gate_type, qubits, params, timestep) ==
    [gate_type |-> gate_type, qubits |-> qubits, params |-> params,
     timestep |-> timestep]

\* SABRERouter.__init__ defaults
LookaheadDepth == 20

\* SABRERouter._get_front_layer: the front as indices into `gates`
RECURSIVE FrontLayerScan(_, _, _, _)
FrontLayerScan(gates, i, front, executed_qubits) ==
    IF i > Len(gates) THEN front
    ELSE LET qs == gates[i].qubits
         IN  IF Len(qs) = 2
             THEN IF \E k \in 1..2 : qs[k] \in executed_qubits
                  THEN FrontLayerScan(gates, i + 1, front, executed_qubits)
                  ELSE FrontLayerScan(gates, i + 1, Append(front, i),
                                      executed_qubits \cup SeqToSet(qs))
             ELSE IF Len(qs) = 1
             THEN FrontLayerScan(gates, i + 1, Append(front, i), executed_qubits)
             ELSE FrontLayerScan(gates, i + 1, front, executed_qubits)

GetFrontLayer(gates) ==
    LET front == FrontLayerScan(gates, 1, <<>>, {})
    IN  [k \in 1..Min2(Len(front), LookaheadDepth) |-> gates[front[k]]]

\* a variant of _is_executable that takes any two-qubit gate as executable
IsExecutableAnyPair(cm, gate, L) == Len(gate.qubits) <= 2

\* SABRERouter._is_executable
IsExecutable(cm, gate, L) ==
    IF Len(gate.qubits) <= 1 THEN TRUE
    ELSE IF Len(gate.qubits) = 2
    THEN IsConnected(cm, LayoutGetPhysical(L, gate.qubits[1]),
                         LayoutGetPhysical(L, gate.qubits[2]))
    ELSE FALSE

\* list.remove(x): drop the first element equal to x
ListRemove(s, x) ==
    LET i == CHOOSE j \in 1..Len(s) : s[j] = x /\ \A k \in 1..(j - 1) : s[k] # x
    IN  RemoveAt(s, i)

\* route, lines 78-92: the scan of front_layer[:] that emits every executable
\* gate.  st = [remaining, routed, any].
RECURSIVE ExecuteFront(_, _, _, _, _)
ExecuteFront(cm, L, front, k, st) ==
    IF k > Len(front) THEN st
    ELSE LET gate == front[k]
         IN  IF IsExecutable(cm, gate, L)
             THEN ExecuteFront(cm, L, front, k + 1,
                    [remaining |-> ListRemove(st.remaining, gate),
                     routed |-> Append(st.routed,
                        GateOp(gate.gate_type,
                               [j \in 1..Len(gate.qubits) |->
                                    LayoutGetPhysical(L, gate.qubits[j])],
                               gate.params, Len(st.routed))),
                     any |-> TRUE])
             ELSE ExecuteFront(cm, L, front, k + 1, st)

\* cost + d, where inf absorbs
CostAdd(a, b) == IF a >= Inf \/ b >= Inf THEN Inf ELSE a + b

\* SABRERouter._calculate_cost, in units of 2^-Len(all_remaining) so that the
\* decayed terms (decay_factor = 0.5, halved after every two-qubit lookahead
\* gate) stay integers.
RECURSIVE FrontCost(_, _, _, _, _)
FrontCost(cm, L, front, k, unit) ==
    IF k > Len(front) THEN 0
    ELSE LET g == front[k]
             d == IF Len(g.qubits) = 2
                  THEN Distance(cm, LayoutGetPhysical(L, g.qubits[1]),
                                    LayoutGetPhysical(L, g.qubits[2]))
                  ELSE 0
         IN  CostAdd(IF d >= Inf THEN Inf ELSE d * unit,
                     FrontCost(cm, L, front, k + 1, unit))

RECURSIVE LookaheadCost(_, _, _, _, _)
LookaheadCost(cm, L, gates, k, decayUnit) ==
    IF k > Len(gates) \/ k > LookaheadDepth THEN 0
    ELSE LET g == gates[k]
         IN  IF Len(g.qubits) = 2
             THEN LET d == Distance(cm, LayoutGetPhysical(L, g.qubits[1]),
                                        LayoutGetPhysical(L, g.qubits[2]))
                  IN  CostAdd(IF d >= Inf THEN Inf ELSE d * decayUnit,
                              LookaheadCost(cm, L, gates, k + 1, decayUnit \div 2))
             ELSE LookaheadCost(cm, L, gates, k + 1, decayUnit)

CalculateCost(cm, front, all_remaining, L) ==
    LET unit == Pow2(Len(all_remaining))
    IN  CostAdd(FrontCost(cm, L, front, 1, unit),
                LookaheadCost(cm, L, all_remaining, Len(front) + 1, unit \div 2))

\* the cost _find_best_swap gives candidate edge e
SwapCost(cm, front, all_remaining, L, e) ==
    CalculateCost(cm, front, all_remaining,
                  LayoutSwap(LayoutNew(L.l2p), e[1], e[2]))

\* SABRERouter._find_best_swap: the edges are scanned in the set's order and
\* a candidate replaces the best only when strictly cheaper, so the result is
\* the first minimum-cost edge of the scan: any edge of minimum cost, and none
\* (None) when every cost is inf.
FindBestSwap(cm, front, all_remaining, L) ==
    {e \in cm.edges :
        /\ SwapCost(cm, front, all_remaining, L, e) < Inf
        /\ \A f \in cm.edges : SwapCost(cm, front, all_remaining, L, e)
                                 <= SwapCost(cm, front, all_remaining, L, f)}

\* decompose_swap
DecomposeSwap(p1, p2) ==
    <<GateOp("CNOT", <<p1, p2>>, <<>>, 0),
      GateOp("CNOT", <<p2, p1>>, <<>>, 0),
      GateOp("CNOT", <<p1, p2>>, <<>>, 0)>>

(***************************************************************************)
(* Step lists (gate descriptors).  A descriptor is a dict; an optional key *)
(* is a sequence that is empty when the key is absent and holds the value  *)
(* when it is present.                                                     *)
(***************************************************************************)
Step(gateType, qubit, controls, targets, theta, timestep) ==
    [gateType |-> gateType, qubit |-> qubit, controls |-> controls,
     targets |-> targets, theta |-> theta, timestep |-> timestep]

\* step.get(key, default)
Get(field, default) == IF field = <<>> THEN default ELSE field[1]

\* str.upper() on the gate names the inputs use
Upper(name) ==
    CASE name = "x" -> "X"
      [] name = "cnot" -> "CNOT"
      [] name = "measurement" -> "MEASUREMENT"
      [] OTHER -> name

\* sorted(..., key=timestep) / list.sort(key=timestep): stable
RECURSIVE InsertByTimestep(_, _)
InsertByTimestep(sorted, x) ==
    IF sorted = <<>> THEN <<x>>
    ELSE IF sorted[Len(sorted)].timestep <= x.timestep THEN Append(sorted, x)
    ELSE Append(InsertByTimestep(SubSeq(sorted, 1, Len(sorted) - 1), x),
                sorted[Len(sorted)])

RECURSIVE SortByTimestep(_)
SortByTimestep(list) ==
    IF list = <<>> THEN <<>>
    ELSE InsertByTimestep(SortByTimestep(SubSeq(list, 1, Len(list) - 1)),
                          list[Len(list)])

(***************************************************************************)
(* transpiler/transpiler.py : Transpiler                                   *)
(***************************************************************************)

\* Transpiler._get_coupling_map(backend): num_qubits defaults to 20
LinearBackendQubits == 20

\* Transpiler._convert_to_gate_ops
RECURSIVE ConvertSteps(_, _)
ConvertSteps(steps, i) ==
    IF i > Len(steps) THEN <<>>
    ELSE LET step == steps[i]
             gate_type == Upper(step.gateType)
             qubits == IF step.controls # <<>>
                       THEN Get(step.controls, <<>>) \o Get(step.targets, <<>>)
                       ELSE <<Get(step.qubit, 0)>>
             rest == ConvertSteps(steps, i + 1)
         IN  IF gate_type = "MEASUREMENT" THEN rest
             ELSE <<GateOp(gate_type, qubits, step.theta, step.timestep)>>
                  \o rest

ConvertToGateOps(steps) == SortByTimestep(ConvertSteps(steps, 1))

\* Transpiler._calculate_depth
RECURSIVE DepthScan(_, _, _)
DepthScan(gates, i, qubit_depths) ==
    IF i > Len(gates)
    THEN IF DOMAIN qubit_depths = {} THEN 0
         ELSE CHOOSE d \in Range(qubit_depths) : \A e \in Range(qubit_depths) : e <= d
    ELSE LET qs == SeqToSet(gates[i].qubits)
             seen == {IF q \in DOMAIN qubit_depths THEN qubit_depths[q] ELSE 0 : q \in qs}
             max_depth == IF seen = {} THEN 0
                          ELSE CHOOSE d \in seen : \A e \in seen : e <= d
         IN  DepthScan(gates, i + 1,
                [q \in (DOMAIN qubit_depths) \cup qs |->
                    IF q \in qs THEN max_depth + 1 ELSE qubit_depths[q]])

CalculateDepth(gates) == IF gates = <<>> THEN 0 ELSE DepthScan(gates, 1, EmptyDict)

\* transpile, lines 86-91
NeedsRouting(cm, gates) ==
    \E i \in 1..Len(gates) :
        /\ Len(gates[i].qubits) = 2
        /\ ~IsConnected(cm, gates[i].qubits[1], gates[i].qubits[2])

\* transpile, lines 108-115
RECURSIVE DecomposeAll(_, _)
DecomposeAll(routed, i) ==
    IF i > Len(routed) THEN <<>>
    ELSE (IF routed[i].gate_type = "SWAP"
          THEN DecomposeSwap(routed[i].qubits[1], routed[i].qubits[2])
          ELSE <<routed[i]>>) \o DecomposeAll(routed, i + 1)

\* gate.qubits[1] of a SWAP that holds fewer than two qubits: IndexError
DecomposeRaises(routed) ==
    \E i \in 1..Len(routed) :
        routed[i].gate_type = "SWAP" /\ Len(routed[i].qubits) < 2

(***************************************************************************)
(* optimizer/dag.py : DAGNode, CircuitDAG                                  *)
(*                                                                         *)
(* Node ids are the numbers n of "node_n".  dag.nodes is a dict, iterated  *)
(* in insertion order: ids are handed out in increasing order and a        *)
(* deletion keeps the order of the rest, so the iteration order is the     *)
(* increasing order of the ids present.  Sets of ids (successors,          *)
(* predecessors, input_nodes, nodes_to_remove) are iterated in an order    *)
(* the program does not control: every order is allowed.                   *)
(* A rotation angle is an integer number of quarter turns of pi.           *)
(***************************************************************************)
DAGNode(gate_type, qubits, params) ==
    [gate_type |-> gate_type, qubits |-> qubits, params |-> params,
     predecessors |-> {}, successors |-> {}, layer |-> 0]

\* CircuitDAG.__init__
EmptyDAG ==
    [nodes |-> EmptyDict, input_nodes |-> {}, output_nodes |-> {},
     node_counter |-> 0]

\* the ids of dag.nodes in iteration order
RECURSIVE SortedIds(_)
SortedIds(S) ==
    IF S = {} THEN <<>>
    ELSE LET m == CHOOSE x \in S : \A y \in S : x <= y
         IN  <<m>> \o SortedIds(S \ {m})

NodeIds(dag) == SortedIds(DOMAIN dag.nodes)

\* CircuitDAG.add_gate (the new id is dag.node_counter)
AddGate(dag, gate_type, qubits, params) ==
    [dag EXCEPT !.node_counter = dag.node_counter + 1,
                !.nodes = DictSet(dag.nodes, dag.node_counter + 1,
                                  DAGNode(gate_type, qubits, params))]

\* CircuitDAG.add_edge
AddEdge(dag, from_id, to_id) ==
    IF from_id \in DOMAIN dag.nodes /\ to_id \in DOMAIN dag.nodes
    THEN LET d1 == [dag EXCEPT !.nodes[from_id].successors = @ \cup {to_id}]
         IN  [d1 EXCEPT !.nodes[to_id].predecessors = @ \cup {from_id}]
    ELSE dag

\* remove_node without the reconnection of neighbours: the node is deleted
\* and its neighbours keep naming it
RemoveNodeNoRelink(dag, node_id) ==
    IF node_id \notin DOMAIN dag.nodes THEN dag
    ELSE [dag EXCEPT !.nodes = [n \in (DOMAIN dag.nodes) \ {node_id} |-> dag.nodes[n]],
                     !.input_nodes = @ \ {node_id},
                     !.output_nodes = @ \ {node_id}]

\* CircuitDAG.remove_node
RemoveNode(dag, node_id) ==
    IF node_id \notin DOMAIN dag.nodes THEN dag
    ELSE LET node == dag.nodes[node_id]
             relink(n) ==
                 LET a == dag.nodes[n]
                     b == IF n \in node.predecessors
                          THEN [a EXCEPT !.successors =
                                    (@ \ {node_id}) \cup node.successors]
                          ELSE a
                 IN  IF n \in node.successors
                     THEN [b EXCEPT !.predecessors =
                                    (@ \ {node_id}) \cup node.predecessors]
                     ELSE b
         IN  [dag EXCEPT !.nodes = [n \in (DOMAIN dag.nodes) \ {node_id} |-> relink(n)],
                         !.input_nodes = @ \ {node_id},
                         !.output_nodes = @ \ {node_id}]

\* CircuitDAG.topological_order: the depth-first visit.  st = [visited,
\* result]; Visit and VisitAll give every state the visit can end in, one for
\* each order in which the successor sets are iterated.
RECURSIVE Visit(_, _, _)
RECURSIVE VisitAll(_, _, _)
Visit(dag, node_id, st) ==
    IF node_id \in st.visited THEN {st}
    ELSE {[visited |-> r.visited, result |-> Append(r.result, node_id)] :
            r \in VisitAll(dag, dag.nodes[node_id].successors,
                           [st EXCEPT !.visited = @ \cup {node_id}])}

VisitAll(dag, S, st) ==
    IF S = {} THEN {st}
    ELSE UNION {UNION {VisitAll(dag, S \ {n}, r) : r \in Visit(dag, n, st)} : n \in S}

\* the second loop of topological_order, over dag.nodes in iteration order
RECURSIVE VisitList(_, _, _, _)
VisitList(dag, ids, i, sts) ==
    IF i > Len(ids) THEN sts
    ELSE VisitList(dag, ids, i + 1, UNION {Visit(dag, ids[i], st) : st \in sts})

Reversed(s) == [i \in 1..Len(s) |-> s[Len(s) + 1 - i]]

\* topological_order without the final reversal: the visit's finishing order
TopologicalOrdersUnreversed(dag) ==
    {st.result :
        st \in VisitList(dag, NodeIds(dag), 1,
                         VisitAll(dag, dag.input_nodes,
                                  [visited |-> {}, result |-> <<>>]))}

\* every list topological_order can return
TopologicalOrders(dag) ==
    {Reversed(st.result) :
        st \in VisitList(dag, NodeIds(dag), 1,
                         VisitAll(dag, dag.input_nodes,
                                  [visited |-> {}, result |-> <<>>]))}

MaxOfSet(S) == CHOOSE x \in S : \A y \in S : y <= x

\* CircuitDAG._compute_layers along one topological order
RECURSIVE ComputeLayers(_, _, _)
ComputeLayers(dag, order, i) ==
    IF i > Len(order) THEN dag
    ELSE LET node == dag.nodes[order[i]]
             layer == IF node.predecessors # {}
                      THEN MaxOfSet({dag.nodes[p].layer : p \in node.predecessors}) + 1
                      ELSE 0
         IN  ComputeLayers([dag EXCEPT !.nodes[order[i]].layer = layer], order, i + 1)

\* from_circuit, lines 114-117: the edges from the last gate on each qubit
RECURSIVE LinkQubits(_, _, _, _, _)
LinkQubits(dag, last_on_qubit, qubits, j, node_id) ==
    IF j > Len(qubits) THEN [dag |-> dag, last_on_qubit |-> last_on_qubit]
    ELSE LET q == qubits[j]
         IN  LinkQubits(IF q \in DOMAIN last_on_qubit
                        THEN AddEdge(dag, last_on_qubit[q], node_id)
                        ELSE dag,
                        DictSet(last_on_qubit, q, node_id), qubits, j + 1, node_id)

\* from_circuit, lines 96-117: the loop over the steps sorted by timestep
RECURSIVE BuildNodes(_, _, _, _)
BuildNodes(steps, i, dag, last_on_qubit) ==
    IF i > Len(steps) THEN dag
    ELSE LET step == steps[i]
             gate_type == Upper(step.gateType)
             qubits == IF step.controls # <<>>
                       THEN Get(step.controls, <<>>) \o Get(step.targets, <<>>)
                       ELSE <<Get(step.qubit, 0)>>
         IN  IF gate_type = "MEASUREMENT"
             THEN BuildNodes(steps, i + 1, dag, last_on_qubit)
             ELSE LET d1 == AddGate(dag, gate_type, qubits, step.theta)
                      r == LinkQubits(d1, last_on_qubit, qubits, 1, d1.node_counter)
                  IN  BuildNodes(steps, i + 1, r.dag, r.last_on_qubit)

\* from_circuit, lines 119-124
MarkInputOutput(dag) ==
    [dag EXCEPT !.input_nodes = {n \in DOMAIN dag.nodes : dag.nodes[n].predecessors = {}},
                !.output_nodes = {n \in DOMAIN dag.nodes : dag.nodes[n].successors = {}}]

\* CircuitDAG.from_circuit: every DAG it can return
FromCircuit(circuit_steps) ==
    LET dag == MarkInputOutput(BuildNodes(SortByTimestep(circuit_steps), 1,
                                          EmptyDAG, EmptyDict))
    IN  {ComputeLayers(dag, order, 1) : order \in TopologicalOrders(dag)}

\* to_circuit, lines 171-187: the step of one node
NodeStep(node) ==
    IF Len(node.qubits) = 1
    THEN Step(node.gate_type, <<node.qubits[1]>>, <<>>, <<>>, node.params, node.layer)
    ELSE Step(node.gate_type, <<>>,
              <<SubSeq(node.qubits, 1, Len(node.qubits) - 1)>>,
              <<(<<node.qubits[Len(node.qubits)]>>)>>,
              node.params, node.layer)

\* CircuitDAG.to_circuit: every step list it can return
ToCircuit(dag) ==
    {[i \in 1..Len(order) |-> NodeStep(dag.nodes[order[i]])] :
        order \in TopologicalOrders(dag)}

(***************************************************************************)
(* optimizer/passes.py : GateCancellation, GateFusion, CommutationAnalysis *)
(***************************************************************************)
SELF_INVERSE == {"X", "Y", "Z", "H", "CNOT", "CZ", "SWAP"}

INVERSE_PAIRS == {<<"S", "SDG">>, <<"SDG", "S">>, <<"T", "TDG">>, <<"TDG", "T">>}

ROTATION_GATES == {"RX", "RY", "RZ"}

\* GateCancellation._gates_cancel
GatesCancel(node1, node2) ==
    IF SeqToSet(node1.qubits) # SeqToSet(node2.qubits) THEN FALSE
    ELSE IF node1.gate_type = node2.gate_type /\ node1.gate_type \in SELF_INVERSE
    THEN TRUE
    ELSE <<node1.gate_type, node2.gate_type>> \in INVERSE_PAIRS

\* a variant of _can_cancel that accepts every pair
CanCancelAlways(dag, id1, id2) == id1 \in DOMAIN dag.nodes

\* GateCancellation._can_cancel
CanCancel(dag, id1, id2) ==
    LET shared_qubits == SeqToSet(dag.nodes[id1].qubits)
                            \cap SeqToSet(dag.nodes[id2].qubits)
    IN  \A succ_id \in dag.nodes[id1].successors :
            (succ_id \in DOMAIN dag.nodes /\ succ_id # id2) =>
                SeqToSet(dag.nodes[succ_id].qubits) \cap shared_qubits = {}

\* GateCancellation.run, lines 70-85: the successors of node_id the inner loop
\* can stop at
CancelPartners(dag, node_id, nodes_to_remove) ==
    {succ_id \in dag.nodes[node_id].successors :
        /\ succ_id \notin nodes_to_remove
        /\ succ_id \in DOMAIN dag.nodes
        /\ GatesCancel(dag.nodes[node_id], dag.nodes[succ_id])
        /\ CanCancel(dag, node_id, succ_id)}

\* GateCancellation.run, lines 63-85: one scan of the nodes.  sc = [remove,
\* pairs]: nodes_to_remove and the pairs that filled it.  The result is every
\* outcome of the scan.
RECURSIVE CancelScan(_, _, _, _)
CancelScan(dag, ids, i, sc) ==
    IF i > Len(ids) THEN {sc}
    ELSE IF ids[i] \in sc.remove THEN CancelScan(dag, ids, i + 1, sc)
    ELSE LET partners == CancelPartners(dag, ids[i], sc.remove)
         IN  IF partners = {} THEN CancelScan(dag, ids, i + 1, sc)
             ELSE UNION {CancelScan(dag, ids, i + 1,
                            [remove |-> sc.remove \cup {ids[i], b},
                             pairs |-> sc.pairs \cup {<<ids[i], b>>}]) :
                         b \in partners}

\* GateCancellation.run, lines 88-89: the removals, in every order of the set
RECURSIVE RemoveAll(_, _)
RemoveAll(dag, S) ==
    IF S = {} THEN {dag}
    ELSE UNION {RemoveAll(RemoveNode(dag, n), S \ {n}) : n \in S}

\* node.params.get('theta', 0) if node.params else 0
ThetaOf(node) == Get(node.params, 0)

\* a variant of the identity test that forgets the period
IsZeroAngle(theta) == theta = 0

\* GateFusion.run, line 168: abs(new_theta % (2 * pi)) < 1e-10, on angles
\* counted in quarter turns of pi
IsIdentityAngle(theta) == theta % 8 = 0

\* GateFusion.run, lines 154-160: the successors a rotation can fuse with
FusePartners(dag, node_id) ==
    {succ_id \in dag.nodes[node_id].successors :
        /\ succ_id \in DOMAIN dag.nodes
        /\ dag.nodes[succ_id].gate_type = dag.nodes[node_id].gate_type
        /\ dag.nodes[succ_id].qubits = dag.nodes[node_id].qubits}

\* GateFusion.run, lines 148-152: the rotations with a partner
Fusable(dag) ==
    {n \in DOMAIN dag.nodes :
        dag.nodes[n].gate_type \in ROTATION_GATES /\ FusePartners(dag, n) # {}}

\* GateFusion.run, lines 162-176
Fuse(dag, node_id, succ_id) ==
    LET new_theta == ThetaOf(dag.nodes[node_id]) + ThetaOf(dag.nodes[succ_id])
    IN  IF IsIdentityAngle(new_theta)
        THEN RemoveNode(RemoveNode(dag, node_id), succ_id)
        ELSE RemoveNode([dag EXCEPT !.nodes[node_id].params = <<new_theta>>], succ_id)

\* optimize_circuit, lines 276-286
PassesOf(level) ==
    IF level >= 2
    THEN <<"GateCancellation", "GateFusion", "CommutationAnalysis",
           "GateCancellation", "GateFusion">>
    ELSE <<"GateCancellation", "GateFusion">>

(***************************************************************************)
(* Execution of X / CNOT / SWAP circuits on the basis state |0...0>: the   *)
(* state stays a basis state, kept as the set of qubits that read 1.       *)
(***************************************************************************)
Toggle(ones, q) == IF q \in ones THEN ones \ {q} ELSE ones \cup {q}

BasisApply(ones, gate) ==
    CASE gate.gate_type = "X" -> Toggle(ones, gate.qubits[1])
      [] gate.gate_type = "CNOT" ->
            IF gate.qubits[1] \in ones THEN Toggle(ones, gate.qubits[2]) ELSE ones
      [] gate.gate_type = "SWAP" ->
            LET a == gate.qubits[1]
                b == gate.qubits[2]
            IN  IF (a \in ones) = (b \in ones) THEN ones
                ELSE Toggle(Toggle(ones, a), b)
      [] OTHER -> ones

RECURSIVE BasisRun(_, _, _)
BasisRun(gates, i, ones) ==
    IF i > Len(gates) THEN ones
    ELSE BasisRun(gates, i + 1, BasisApply(ones, gates[i]))

IsBasisCircuit(gates) ==
    \A i \in 1..Len(gates) :
        \/ gates[i].gate_type = "X" /\ Len(gates[i].qubits) = 1
        \/ gates[i].gate_type \in {"CNOT", "SWAP"} /\ Len(gates[i].qubits) = 2

(***************************************************************************)
(* circuit_executor.py : CircuitExecutor._execute_step on the basis state  *)
(* |0...0> for X / CNOT / CCNOT / SWAP step lists (the state is the set of *)
(* qubits that read 1).                                                    *)
(***************************************************************************)
\* GATE_TYPE_MAP.get(raw.upper(), raw.upper())
NormalizeGateType(raw) ==
    LET up == Upper(raw)
    IN  CASE up = "CX" -> "CNOT"
          [] up \in {"CCX", "TOFFOLI"} -> "CCNOT"
          [] up = "M" -> "MEASUREMENT"
          [] OTHER -> up

RECURSIVE BitAnd(_, _)
BitAnd(a, b) ==
    IF a = 0 \/ b = 0 THEN 0
    ELSE (a % 2) * (b % 2) + 2 * BitAnd(a \div 2, b \div 2)

\* sum(1 << c for c in controls)
RECURSIVE ControlMask(_, _)
ControlMask(controls, j) ==
    IF j > Len(controls) THEN 0
    ELSE Pow2(controls[j]) + ControlMask(controls, j + 1)

\* the index of the basis state whose set bits are the qubits of ones
RECURSIVE BasisIndex(_)
BasisIndex(ones) ==
    IF ones = {} THEN 0
    ELSE LET q == CHOOSE x \in ones : TRUE
         IN  Pow2(q) + BasisIndex(ones \ {q})

\* apply_controlled_gate with target gate X on a basis state: the amplitude
\* moves between i and i | target_mask when i, the index with the target bit
\* cleared, has (i & control_mask) == control_mask
ExecuteStepBasis(ones, step) ==
    LET gate_type == NormalizeGateType(step.gateType)
        controls == Get(step.controls, <<>>)
        targets == Get(step.targets, <<>>)
    IN  CASE gate_type \in {"CNOT", "CCNOT"} ->
                IF targets # <<>>
                THEN LET control_mask == ControlMask(controls, 1)
                         i == BasisIndex(ones \ {targets[1]})
                     IN  IF BitAnd(i, control_mask) = control_mask
                         THEN Toggle(ones, targets[1]) ELSE ones
                ELSE ones
          [] gate_type = "SWAP" ->
                IF Len(targets) >= 2
                THEN BasisApply(ones, GateOp("SWAP", <<targets[1], targets[2]>>, <<>>, 0))
                ELSE ones
          [] gate_type = "X" -> Toggle(ones, Get(step.qubit, 0))
          [] OTHER -> ones

RECURSIVE ExecuteBasis(_, _, _)
ExecuteBasis(steps, i, ones) ==
    IF i > Len(steps) THEN ones
    ELSE ExecuteBasis(steps, i + 1, ExecuteStepBasis(ones, steps[i]))

IsBasisStepList(steps) ==
    \A i \in 1..Len(steps) :
        NormalizeGateType(steps[i].gateType) \in {"X", "CNOT", "CCNOT", "SWAP"}

(***************************************************************************)
(* kernels/statevector.py : StatevectorKernel                              *)
(*                                                                         *)
(* An amplitude is a Gaussian integer <<re, im>> over a common scale: the  *)
(* state is vec / sqrt(2)^k.  This is exact for the gates whose matrices   *)
(* have entries in {0, 1, -1, i, -i} / sqrt(2)^s.                          *)
(***************************************************************************)
\* (i >> q) & 1
BitOf(i, q) == (i \div Pow2(q)) % 2

CZero == <<0, 0>>

COne == <<1, 0>>

CAdd(a, b) == <<a[1] + b[1], a[2] + b[2]>>

CMul(a, b) == <<a[1] * b[1] - a[2] * b[2], a[1] * b[2] + a[2] * b[1]>>

\* abs(a) ** 2, before the scale
CNorm2(a) == a[1] * a[1] + a[2] * a[2]

\* GATE_MAP: m[r][c] is gate[r - 1, c - 1] times sqrt(2)^s
GATE_MAP ==
    [I   |-> [m |-> <<<<COne, CZero>>, <<CZero, COne>>>>, s |-> 0],
     X   |-> [m |-> <<<<CZero, COne>>, <<COne, CZero>>>>, s |-> 0],
     Y   |-> [m |-> <<<<CZero, <<0, -1>>>>, <<<<0, 1>>, CZero>>>>, s |-> 0],
     Z   |-> [m |-> <<<<COne, CZero>>, <<CZero, <<-1, 0>>>>>>, s |-> 0],
     H   |-> [m |-> <<<<COne, COne>>, <<COne, <<-1, 0>>>>>>, s |-> 1],
     S   |-> [m |-> <<<<COne, CZero>>, <<CZero, <<0, 1>>>>>>, s |-> 0],
     SDG |-> [m |-> <<<<COne, CZero>>, <<CZero, <<0, -1>>>>>>, s |-> 0]]

\* the same state with the common factors of 2 taken out of the scale
RECURSIVE Reduced(_)
Reduced(sv) ==
    IF sv.k >= 2 /\ \A i \in DOMAIN sv.vec : sv.vec[i][1] % 2 = 0 /\ sv.vec[i][2] % 2 = 0
    THEN Reduced([sv EXCEPT !.k = sv.k - 2,
                            !.vec = [i \in DOMAIN sv.vec |->
                                        <<sv.vec[i][1] \div 2, sv.vec[i][2] \div 2>>]])
    ELSE sv

\* StatevectorKernel.initialize
SvInitialize(num_qubits) ==
    [num_qubits |-> num_qubits,
     vec |-> [i \in 0..(Pow2(num_qubits) - 1) |-> IF i = 0 THEN COne ELSE CZero],
     k |-> 0]

\* StatevectorKernel._apply_single_qubit_gate
SvApplySingleQubitGate(sv, gate, target) ==
    LET target_mask == Pow2(target)
        new(i) ==
            IF BitOf(i, target) = 0
            THEN CAdd(CMul(gate.m[1][1], sv.vec[i]),
                      CMul(gate.m[1][2], sv.vec[i + target_mask]))
            ELSE CAdd(CMul(gate.m[2][1], sv.vec[i - target_mask]),
                      CMul(gate.m[2][2], sv.vec[i]))
    IN  Reduced([sv EXCEPT !.vec = [i \in DOMAIN sv.vec |-> new(i)],
                           !.k = sv.k + gate.s])

\* StatevectorKernel.apply_gate (no noise model attached)
SvApplyGate(sv, gate_type, target) ==
    IF gate_type \in DOMAIN GATE_MAP
    THEN SvApplySingleQubitGate(sv, GATE_MAP[gate_type], target)
    ELSE sv

\* StatevectorKernel.apply_controlled_gate
SvApplyControlledGate(sv, gate_type, controls, target) ==
    LET target_gate == IF gate_type \in {"CNOT", "CX", "CCX", "CCNOT", "TOFFOLI"}
                       THEN GATE_MAP["X"]
                       ELSE IF gate_type = "CZ" THEN GATE_MAP["Z"]
                       ELSE IF gate_type \in DOMAIN GATE_MAP THEN GATE_MAP[gate_type]
                       ELSE GATE_MAP["I"]
        target_mask == Pow2(target)
        control_mask == ControlMask(controls, 1)
        on(i) == BitAnd(i, control_mask) = control_mask
        new(i) ==
            IF BitOf(i, target) = 0
            THEN IF on(i)
                 THEN CAdd(CMul(target_gate.m[1][1], sv.vec[i]),
                           CMul(target_gate.m[1][2], sv.vec[i + target_mask]))
                 ELSE sv.vec[i]
            ELSE IF on(i - target_mask)
                 THEN CAdd(CMul(target_gate.m[2][1], sv.vec[i - target_mask]),
                           CMul(target_gate.m[2][2], sv.vec[i]))
                 ELSE sv.vec[i]
    IN  Reduced([sv EXCEPT !.vec = [i \in DOMAIN sv.vec |-> new(i)]])

\* StatevectorKernel.apply_swap
SvApplySwap(sv, q1, q2) ==
    LET flip(i, q) == IF BitOf(i, q) = 0 THEN i + Pow2(q) ELSE i - Pow2(q)
    IN  [sv EXCEPT !.vec = [i \in DOMAIN sv.vec |->
                               IF BitOf(i, q1) # BitOf(i, q2)
                               THEN sv.vec[flip(flip(i, q1), q2)]
                               ELSE sv.vec[i]]]

\* a variant of the rendering that writes qubit 0 first
BitStringQubit0First(i, n) == [j \in 1..n |-> BitOf(i, j - 1)]

\* format(i, '0nb'): the n binary digits of i, most significant first
BitString(i, n) == [j \in 1..n |-> (i \div Pow2(n - j)) % 2]

\* StatevectorKernel.get_probabilities: bitstring |-> probability, the
\* probability p as the pair <<a, b>> with p = a / 2^b
SvGetProbabilities(sv) ==
    LET kept == {i \in DOMAIN sv.vec : CNorm2(sv.vec[i]) > 0}
    IN  [b \in {BitString(i, sv.num_qubits) : i \in kept} |->
            LET i == CHOOSE x \in kept : BitString(x, sv.num_qubits) = b
            IN  <<CNorm2(sv.vec[i]), sv.k>>]

\* the m with 2^m = x (x a power of two; the largest m with 2^m <= x otherwise)
RECURSIVE Log2(_)
Log2(x) == IF x <= 1 THEN 0 ELSE 1 + Log2(x \div 2)

RECURSIVE SumNorm2(_, _)
SumNorm2(sv, S) ==
    IF S = {} THEN 0
    ELSE LET i == CHOOSE x \in S : TRUE
         IN  CNorm2(sv.vec[i]) + SumNorm2(sv, S \ {i})

\* prob_one of StatevectorKernel.measure, times 2^k
SvProbOne(sv, qubit) == SumNorm2(sv, {i \in DOMAIN sv.vec : BitOf(i, qubit) = 1})

\* the values `1 if np.random.random() < prob_one else 0` can take, the
\* random number being anywhere in [0, 1)
SvMeasureOutcomes(sv, qubit) ==
    {o \in {0, 1} : IF o = 1 THEN SvProbOne(sv, qubit) > 0
                             ELSE SvProbOne(sv, qubit) < Pow2(sv.k)}

\* StatevectorKernel.measure, the collapse onto `outcome` and the division
\* by sqrt(norm): the kept amplitudes a / sqrt(2)^k have norm N / 2^k with
\* N the sum of the |a|^2, so that they become a / sqrt(N); for the states
\* the gates of GATE_MAP build, N is a power of two
SvCollapse(sv, qubit, outcome) ==
    LET kept == {i \in DOMAIN sv.vec : BitOf(i, qubit) = outcome}
        norm == SumNorm2(sv, kept)
        vec  == [i \in DOMAIN sv.vec |-> IF i \in kept THEN sv.vec[i] ELSE CZero]
    IN  IF norm > 0
        THEN Reduced([sv EXCEPT !.vec = vec, !.k = Log2(norm)])
        ELSE [sv EXCEPT !.vec = vec]

(***************************************************************************)
(* kernels/clifford.py : CliffordKernel                                    *)
(*                                                                         *)
(* The tableau is rows 0..2n-1, each [x, z, r]: the X bits and the Z bits  *)
(* of the n qubits and the phase column.  The uint8 arithmetic of the      *)
(* phase wraps modulo 256 and is read modulo 4, so it is integer           *)
(* arithmetic modulo 4.                                                    *)
(***************************************************************************)
TableauRow(n, xq, zq, r) ==
    [x |-> [q \in 0..(n - 1) |-> IF q \in xq THEN 1 ELSE 0],
     z |-> [q \in 0..(n - 1) |-> IF q \in zq THEN 1 ELSE 0],
     r |-> r]

\* CliffordKernel.initialize
CfInitialize(num_qubits) ==
    [num_qubits |-> num_qubits,
     tableau |-> [row \in 0..(2 * num_qubits - 1) |->
                    IF row < num_qubits
                    THEN TableauRow(num_qubits, {row}, {}, 0)
                    ELSE TableauRow(num_qubits, {}, {row - num_qubits}, 0)]]

Xor(a, b) == (a + b) % 2

\* a ^ b on the two-bit phase values
Xor2(a, b) == 2 * Xor(a \div 2, b \div 2) + Xor(a % 2, b % 2)

\* _rowsum, lines 86-93
RowsumG(x_i, z_i, x_h, z_h) ==
    IF x_i = 0 /\ z_i = 0 THEN 0
    ELSE IF x_i = 1 /\ z_i = 1 THEN z_h - x_h
    ELSE IF x_i = 1 /\ z_i = 0 THEN z_h * (2 * x_h - 1)
    ELSE x_h * (1 - 2 * z_h)

RECURSIVE SumOver(_, _, _)
SumOver(f, lo, hi) == IF lo > hi THEN 0 ELSE f[lo] + SumOver(f, lo + 1, hi)

\* CliffordKernel._rowsum on the rows themselves: the new row h
Rowsum(n, rh, ri) ==
    LET g == [j \in 0..(n - 1) |-> RowsumG(ri.x[j], ri.z[j], rh.x[j], rh.z[j])]
        phase_sum == SumOver(g, 0, n - 1)
    IN  [x |-> [j \in 0..(n - 1) |-> Xor(rh.x[j], ri.x[j])],
         z |-> [j \in 0..(n - 1) |-> Xor(rh.z[j], ri.z[j])],
         r |-> (rh.r + ri.r + phase_sum) % 4]

\* CliffordKernel.apply_gate, one row at a time
CfGateOnRow(gate_type, row, target) ==
    LET x == row.x[target]
        z == row.z[target]
    IN  CASE gate_type = "H" ->
                [x |-> [row.x EXCEPT ![target] = z],
                 z |-> [row.z EXCEPT ![target] = x],
                 r |-> (row.r + 2 * (x * z)) % 4]
          [] gate_type = "S" ->
                [row EXCEPT !.z[target] = Xor(x, z),
                            !.r = (row.r + 2 * (x * z)) % 4]
          [] gate_type = "X" ->
                IF z = 1 THEN [row EXCEPT !.r = (row.r + 2) % 4] ELSE row
          [] gate_type = "Z" ->
                IF x = 1 THEN [row EXCEPT !.r = (row.r + 2) % 4] ELSE row
          [] OTHER -> row

CfOnRows(cf, gate_type, target) ==
    [cf EXCEPT !.tableau = [row \in DOMAIN cf.tableau |->
                               CfGateOnRow(gate_type, cf.tableau[row], target)]]

\* apply_gate, lines 143-150: the phase added after X and Z for a Y
CfYPhase(cf, target) ==
    [cf EXCEPT !.tableau = [row \in DOMAIN cf.tableau |->
        IF Xor(cf.tableau[row].x[target], cf.tableau[row].z[target]) = 1
        THEN [cf.tableau[row] EXCEPT !.r = (@ + 1) % 4]
        ELSE cf.tableau[row]]]

\* CliffordKernel.apply_gate
CfApplyGate(cf, gate_type, target) ==
    CASE gate_type = "SDG" ->
            CfOnRows(CfOnRows(CfOnRows(cf, "S", target), "S", target), "S", target)
      [] gate_type = "Y" ->
            CfYPhase(CfOnRows(CfOnRows(cf, "X", target), "Z", target), target)
      [] OTHER -> CfOnRows(cf, gate_type, target)

\* a CNOT that updates the X bit of the target and leaves the Z bit of the
\* control alone
CfCnotXOnly(cf, control, target) ==
    [cf EXCEPT !.tableau = [i \in DOMAIN cf.tableau |->
        [cf.tableau[i] EXCEPT !.x[target] = Xor(@, cf.tableau[i].x[control])]]]

\* apply_controlled_gate, lines 173-183
CfCnot(cf, control, target) ==
    [cf EXCEPT !.tableau = [i \in DOMAIN cf.tableau |->
        LET row == cf.tableau[i]
            x_c == row.x[control]
            z_c == row.z[control]
            x_t == row.x[target]
            z_t == row.z[target]
            phase_contrib == x_c * z_t * Xor(Xor(x_t, z_c), 1)
            r1 == [row EXCEPT !.r = (row.r + 2 * phase_contrib) % 4]
            r2 == [r1 EXCEPT !.x[target] = Xor(x_t, x_c)]
        IN  [r2 EXCEPT !.z[control] = Xor(z_c, z_t)]]]

\* CliffordKernel.apply_controlled_gate, for a single control (any other
\* number of controls raises ValueError)
CfApplyControlledGate(cf, gate_type, controls, target) ==
    CASE gate_type \in {"CNOT", "CX"} -> CfCnot(cf, controls[1], target)
      [] gate_type = "CZ" ->
            CfApplyGate(CfCnot(CfApplyGate(cf, "H", target), controls[1], target),
                        "H", target)
      [] OTHER -> cf

\* CliffordKernel.apply_swap
CfApplySwap(cf, q1, q2) == CfCnot(CfCnot(CfCnot(cf, q1, q2), q2, q1), q1, q2)

\* CliffordKernel.measure with the random bit given: [cf, outcome, random]
CfMeasure(cf, qubit, coin) ==
    LET n == cf.num_qubits
        t == cf.tableau
        anti == {i \in n..(2 * n - 1) : t[i].x[qubit] = 1}
    IN  IF anti # {}
        THEN LET p == CHOOSE i \in anti : \A j \in anti : i <= j
                 summed == [i \in DOMAIN t |->
                               IF i # p /\ t[i].x[qubit] = 1
                               THEN Rowsum(n, t[i], t[p]) ELSE t[i]]
                 moved == [summed EXCEPT ![p - n] = summed[p]]
                 final == [moved EXCEPT ![p] = TableauRow(n, {}, {qubit}, 2 * coin)]
             IN  [cf |-> [cf EXCEPT !.tableau = final], outcome |-> coin,
                  random |-> TRUE]
        ELSE LET rows == {i \in 0..(n - 1) : t[i].x[qubit] = 1}
                 phases == [i \in 0..(n - 1) |-> IF i \in rows THEN t[i + n].r ELSE 0]
                 \* scratch ^= tableau[i + n], phase column
                 scratch == [b \in 0..1 |->
                                Cardinality({i \in rows : (phases[i] \div Pow2(b)) % 2 = 1}) % 2]
             IN  [cf |-> cf, outcome |-> scratch[1], random |-> FALSE]

\* get_probabilities, lines 256-258: one sample.  Every leaf the measurement
\* of qubits q..n-1 can reach: [result, coins], the characters appended and
\* the number of random outcomes drawn.
RECURSIVE CfSample(_, _, _, _)
CfSample(cf, q, result, coins) ==
    IF q >= cf.num_qubits THEN {[result |-> result, coins |-> coins]}
    ELSE UNION {LET m == CfMeasure(cf, q, coin)
                IN  CfSample(m.cf, q + 1, Append(result, m.outcome),
                             coins + (IF m.random THEN 1 ELSE 0)) :
                coin \in {0, 1}}

\* CliffordKernel.get_probabilities in the limit of many samples: result
\* string |-> its probability p, as the pair <<a, b>> with p = a / 2^b
CfGetProbabilities(cf) ==
    LET n == cf.num_qubits
        leaves == CfSample(cf, 0, <<>>, 0)
    IN  [res \in {l.result : l \in leaves} |->
            <<SumOver([c \in 0..n |->
                         Cardinality({l \in leaves : l.result = res /\ l.coins = c})
                            * Pow2(n - c)], 0, n), n>>]

\* p = a / 2^b in lowest terms, so that equal probabilities are equal pairs
RECURSIVE ProbValue(_)
ProbValue(p) ==
    IF p[1] % 2 = 0 /\ p[2] > 0 THEN ProbValue(<<p[1] \div 2, p[2] - 1>>) ELSE p

\* idle values of the other machines' variables (replaced below as they grow)
IdleRt == [pc |-> "idle"]

IdleOpt == [pc |-> "idle"]

IdleKern == [pc |-> "idle", gates |-> <<>>]

IdleVm == [pc |-> "idle"]

IdleExec == [pc |-> "idle"]

IdleNoise == [pc |-> "idle"]

(***************************************************************************)
(* The Layout state machine: a Layout built from an injective mapping,     *)
(* then any sequence of set_mapping and swap calls.                        *)
(***************************************************************************)
LayoutQubits == 4

LayoutIds == 0..(LayoutQubits - 1)

InjectiveMaps(D, R) ==
    UNION {{m \in [S -> R] : \A a, b \in S : m[a] = m[b] => a = b} : S \in SUBSET D}

IdleLayout == LayoutNew(EmptyDict)

IdleLayoutOp == [op |-> "idle", a |-> 0, b |-> 0, unmapped |-> 0]

LayoutInit ==
    /\ \E m \in InjectiveMaps(LayoutIds, LayoutIds) : layout = LayoutNew(m)
    /\ layoutOp = [op |-> "init", a |-> 0, b |-> 0, unmapped |-> 0]
    /\ rt = IdleRt
    /\ opt = IdleOpt
    /\ kern = IdleKern
    /\ vm = IdleVm
    /\ exec = IdleExec
    /\ nz = IdleNoise

SetMapping(l, p) ==
    /\ ~layout.err
    /\ layout' = LayoutSetMapping(layout, l, p)
    /\ layoutOp' = [op |-> "set_mapping", a |-> l, b |-> p, unmapped |-> 0]
    /\ UNCHANGED <<rt, opt, kern, vm, exec, nz>>

Swap(p1, p2) ==
    /\ ~layout.err
    /\ layout' = LayoutSwap(layout, p1, p2)
    /\ layoutOp' = [op |-> "swap", a |-> p1, b |-> p2,
                    unmapped |-> Cardinality({p1, p2} \ DOMAIN layout.p2l)]
    /\ UNCHANGED <<rt, opt, kern, vm, exec, nz>>

LayoutNext ==
    \/ \E l \in LayoutIds, p \in LayoutIds : SetMapping(l, p)
    \/ \E p1 \in LayoutIds, p2 \in LayoutIds : Swap(p1, p2)

SpecLayout == LayoutInit /\ [][LayoutNext]_vars

(***************************************************************************)
(* The routing state machine.  In mode "route" a caller hands a gate list, *)
(* a coupling map and an optional initial layout to SABRERouter.route; in  *)
(* mode "transpile" a step list goes through Transpiler.transpile on the   *)
(* default 'linear' backend.  Each turn of route's while loop is one       *)
(* action.                                                                 *)
(***************************************************************************)
MaxGates == 2

MaxSwaps == 4

\* index.py: data.get('numQubits', 5)
DefaultNumQubits == 5

LinearMap == HardwareLinear(LinearBackendQubits)

DirectedMap == CouplingMapNew(<<<<0, 1>>, <<1, 2>>>>, FALSE)

SplitMap == CouplingMapNew(<<<<0, 1>>, <<2, 3>>>>, TRUE)

CMapOf(name) ==
    CASE name = "linear" -> LinearMap
      [] name = "directed" -> DirectedMap
      [] name = "split" -> SplitMap

RouteMaps == {"linear", "directed", "split"}

\* gate lists handed to route
RouteAlphabet ==
    {GateOp("X", <<0>>, <<>>, 0), GateOp("X", <<2>>, <<>>, 0),
     GateOp("CNOT", <<0, 2>>, <<>>, 0), GateOp("CNOT", <<2, 0>>, <<>>, 0),
     GateOp("CNOT", <<1, 2>>, <<>>, 0), GateOp("CNOT", <<0, 1>>, <<>>, 0),
     GateOp("SWAP", <<0, 2>>, <<>>, 0), GateOp("CCNOT", <<0, 1, 2>>, <<>>, 0)}

\* step lists handed to transpile
TranspileAlphabet ==
    {Step("CNOT", <<>>, <<<<0>>>>, <<<<4>>>>, <<>>, 0),
     Step("cnot", <<>>, <<<<0>>>>, <<<<2>>>>, <<>>, 1),
     Step("CNOT", <<>>, <<<<1>>>>, <<<<2>>>>, <<>>, 0),
     Step("X", <<0>>, <<>>, <<>>, <<>>, 1),
     Step("x", <<2>>, <<>>, <<>>, <<>>, 0),
     Step("MEASUREMENT", <<0>>, <<>>, <<>>, <<>>, 2),
     Step("SWAP", <<>>, <<>>, <<<<0, 2>>>>, <<>>, 1)}

\* longer step lists handed to transpile: two single-qubit gates ahead of a
\* CNOT that needs a SWAP
TranspileScenarios ==
    {<<Step("x", <<2>>, <<>>, <<>>, <<>>, 0),
       Step("X", <<0>>, <<>>, <<>>, <<>>, 1),
       Step("cnot", <<>>, <<<<0>>>>, <<<<2>>>>, <<>>, 1)>>}

UsedQubits(gates) == UNION {SeqToSet(gates[i].qubits) : i \in 1..Len(gates)}

\* the initial layouts a caller passes: none, or a placement of the used
\* logical qubits on sites 0..2
CallerLayouts(gates) ==
    {<<>>} \cup
    {<<m>> : m \in {f \in [UsedQubits(gates) -> 0..2] :
                        \A a, b \in UsedQubits(gates) : f[a] = f[b] => a = b}}

\* partial layouts a caller passes: one used logical qubit placed on site 0,
\* the others unmapped (tried on the two-edge directed map)
PartialLayouts(gates, cmap) ==
    IF cmap = "directed" THEN {<<[l \in {q} |-> 0]>> : q \in UsedQubits(gates)}
    ELSE {}

IdentityOn(S) == [q \in S |-> q]

\* coupling maps a caller builds: up to MaxTopoEdges edges between the
\* qubits of TopoQubits, taken as given or in both directions
MaxTopoEdges == 3

TopoQubits == 0..3

RECURSIVE EdgeList(_)
EdgeList(E) ==
    IF E = {} THEN <<>>
    ELSE LET e == CHOOSE x \in E : \A y \in E :
                        x[1] < y[1] \/ (x[1] = y[1] /\ x[2] <= y[2])
         IN  <<e>> \o EdgeList(E \ {e})

TopoEdgeSets ==
    {E \in SUBSET {<<a, b>> : a, b \in TopoQubits} : Cardinality(E) <= MaxTopoEdges}

TopoBlank ==
    [cm |-> CouplingMapNew(<<>>, TRUE), q1 |-> 0, q2 |-> 0, distance |-> 0,
     path |-> <<>>]

RtBlank ==
    [mode |-> "route", steps |-> <<>>, decompose |-> FALSE, gates |-> <<>>,
     cmap |-> "linear", init |-> <<>>, layout |-> LayoutNew(EmptyDict),
     remaining |-> <<>>, routed |-> <<>>, num_swaps |-> 0, pc |-> "start",
     out |-> <<>>, original_depth |-> 0, transpiled_depth |-> 0,
     topo |-> TopoBlank]

RouteInit ==
    /\ \/ \E gs \in SeqsUpTo(RouteAlphabet, 0, MaxGates), m \in RouteMaps :
            \E il \in CallerLayouts(gs) \cup PartialLayouts(gs, m) :
                rt = [RtBlank EXCEPT !.gates = gs, !.cmap = m, !.init = il]
       \/ \E ss \in SeqsUpTo(TranspileAlphabet, 0, MaxGates) \cup TranspileScenarios,
               d \in BOOLEAN :
            rt = [RtBlank EXCEPT !.mode = "transpile", !.steps = ss,
                                 !.decompose = d]
       \/ \E E \in TopoEdgeSets, bidirectional \in BOOLEAN, q1, q2 \in TopoQubits :
            rt = [RtBlank EXCEPT !.mode = "topology",
                    !.topo = [TopoBlank EXCEPT
                                !.cm = CouplingMapNew(EdgeList(E), bidirectional),
                                !.q1 = q1, !.q2 = q2]]
    /\ layout = IdleLayout
    /\ layoutOp = IdleLayoutOp
    /\ opt = IdleOpt
    /\ kern = IdleKern
    /\ vm = IdleVm
    /\ exec = IdleExec
    /\ nz = IdleNoise

\* route, lines 51-67
RouteStart ==
    /\ rt.pc = "start"
    /\ rt.mode = "route"
    /\ rt' = IF rt.gates = <<>>
             THEN [rt EXCEPT !.pc = "returned",
                             !.layout = IF rt.init # <<>> THEN LayoutNew(rt.init[1])
                                        ELSE LayoutNew(EmptyDict)]
             ELSE [rt EXCEPT !.pc = "loop",
                             !.layout = IF rt.init # <<>> THEN LayoutNew(rt.init[1])
                                        ELSE LayoutNew(IdentityOn(UsedQubits(rt.gates))),
                             !.remaining = rt.gates]
    /\ UNCHANGED <<layout, layoutOp, opt, kern, vm, exec, nz>>

\* transpile, lines 81-105: convert, measure the depth, and either return the
\* gates unrouted or enter route with no initial layout
TranspileStart ==
    /\ rt.pc = "start"
    /\ rt.mode = "transpile"
    /\ LET gates == ConvertToGateOps(rt.steps)
           depth == CalculateDepth(gates)
       IN  rt' = IF ~NeedsRouting(CMapOf(rt.cmap), gates)
                 THEN [rt EXCEPT !.pc = "transpiled", !.gates = gates, !.out = gates,
                                 !.layout = LayoutNew(IdentityOn(0..(DefaultNumQubits - 1))),
                                 !.original_depth = depth, !.transpiled_depth = depth]
                 ELSE [rt EXCEPT !.pc = "loop", !.gates = gates, !.remaining = gates,
                                 !.layout = LayoutNew(IdentityOn(UsedQubits(gates))),
                                 !.original_depth = depth]
    /\ UNCHANGED <<layout, layoutOp, opt, kern, vm, exec, nz>>

RtFront == GetFrontLayer(rt.remaining)

RtExecuted ==
    ExecuteFront(CMapOf(rt.cmap), rt.layout, RtFront, 1,
                 [remaining |-> rt.remaining, routed |-> rt.routed, any |-> FALSE])

\* route, lines 69-95: a turn of the loop that executes front-layer gates
RouteExecute ==
    /\ rt.pc = "loop"
    /\ rt.remaining # <<>>
    /\ RtFront # <<>>
    /\ RtExecuted.any
    /\ rt' = [rt EXCEPT !.remaining = RtExecuted.remaining,
                        !.routed = RtExecuted.routed]
    /\ UNCHANGED <<layout, layoutOp, opt, kern, vm, exec, nz>>

\* route, lines 97-113: a turn that inserts the best SWAP
RouteInsertSwap ==
    /\ rt.pc = "loop"
    /\ rt.remaining # <<>>
    /\ RtFront # <<>>
    /\ ~RtExecuted.any
    /\ rt.num_swaps < MaxSwaps
    /\ \E e \in FindBestSwap(CMapOf(rt.cmap), RtFront, rt.remaining, rt.layout) :
         rt' = [rt EXCEPT !.routed = Append(rt.routed,
                                GateOp("SWAP", <<e[1], e[2]>>, <<>>, Len(rt.routed))),
                          !.num_swaps = rt.num_swaps + 1,
                          !.layout = LayoutSwap(rt.layout, e[1], e[2])]
    /\ UNCHANGED <<layout, layoutOp, opt, kern, vm, exec, nz>>

\* route, lines 73-75 and 114-116: the two breaks that leave the loop with
\* gates still in remaining_gates
RouteBreak ==
    /\ rt.pc = "loop"
    /\ rt.remaining # <<>>
    /\ \/ RtFront = <<>>
       \/ /\ ~RtExecuted.any
          /\ FindBestSwap(CMapOf(rt.cmap), RtFront, rt.remaining, rt.layout) = {}
    /\ rt' = [rt EXCEPT !.pc = "returned"]
    /\ UNCHANGED <<layout, layoutOp, opt, kern, vm, exec, nz>>

\* route, lines 69 and 118: the loop ends with nothing remaining
RouteReturn ==
    /\ rt.pc = "loop"
    /\ rt.remaining = <<>>
    /\ rt' = [rt EXCEPT !.pc = "returned"]
    /\ UNCHANGED <<layout, layoutOp, opt, kern, vm, exec, nz>>

\* transpile, lines 107-126
TranspileFinish ==
    /\ rt.pc = "returned"
    /\ rt.mode = "transpile"
    /\ IF rt.decompose /\ DecomposeRaises(rt.routed)
       THEN rt' = [rt EXCEPT !.pc = "raised"]
       ELSE LET gates == IF rt.decompose THEN DecomposeAll(rt.routed, 1) ELSE rt.routed
            IN  rt' = [rt EXCEPT !.pc = "transpiled", !.out = gates,
                                 !.transpiled_depth = CalculateDepth(gates)]
    /\ UNCHANGED <<layout, layoutOp, opt, kern, vm, exec, nz>>

\* CouplingMap.distance(q1, q2) on the caller's map
TopoDistance ==
    /\ rt.pc = "start"
    /\ rt.mode = "topology"
    /\ rt' = [rt EXCEPT !.pc = "measured",
                        !.topo.distance = Distance(rt.topo.cm, rt.topo.q1, rt.topo.q2)]
    /\ UNCHANGED <<layout, layoutOp, opt, kern, vm, exec, nz>>

\* CouplingMap.shortest_path(q1, q2) on the caller's map
TopoShortestPath ==
    /\ rt.pc = "measured"
    /\ rt.mode = "topology"
    /\ \E path \in ShortestPaths(rt.topo.cm, rt.topo.q1, rt.topo.q2) :
         rt' = [rt EXCEPT !.pc = "traced", !.topo.path = path]
    /\ UNCHANGED <<layout, layoutOp, opt, kern, vm, exec, nz>>

RouteNext ==
    \/ RouteStart
    \/ TopoDistance
    \/ TopoShortestPath
    \/ TranspileStart
    \/ RouteExecute
    \/ RouteInsertSwap
    \/ RouteBreak
    \/ RouteReturn
    \/ TranspileFinish

SpecRoute == RouteInit /\ [][RouteNext]_vars

(***************************************************************************)
(* The optimizer state machine: optimize_circuit(circuit_steps, level),    *)
(* one action per turn of a pass's while loop, followed by a second call   *)
(* on the list the first call returned.                                    *)
(***************************************************************************)
MaxOptGates == 3

StepX(q) == Step("X", <<q>>, <<>>, <<>>, <<>>, 0)

StepH(q) == Step("H", <<q>>, <<>>, <<>>, <<>>, 0)

StepRot(axis, q, theta) == Step(axis, <<q>>, <<>>, <<>>, <<theta>>, 0)

StepCNOT(c, t) == Step("CNOT", <<>>, <<<<c>>>>, <<<<t>>>>, <<>>, 0)

StepSWAP(a, b) == Step("SWAP", <<>>, <<>>, <<<<a, b>>>>, <<>>, 0)

\* the gates of the input step lists
OptAlphabet ==
    {StepX(0), StepX(1), StepH(0),
     StepRot("RZ", 0, 1), StepRot("RZ", 0, -1), StepRot("RZ", 0, 4),
     StepRot("RX", 0, 4),
     StepCNOT(0, 1), StepCNOT(1, 0), StepSWAP(0, 1),
     Step("CCNOT", <<>>, <<<<0, 1>>>>, <<<<2>>>>, <<>>, 0),
     Step("MEASUREMENT", <<0>>, <<>>, <<>>, <<>>, 0)}

\* longer inputs
OptScenarios ==
    {<<StepX(0), StepH(0), StepX(0)>>,
     <<StepX(0), StepH(0), StepH(0), StepX(0)>>,
     <<StepX(0), StepRot("RZ", 0, 4), StepRot("RZ", 0, 4), StepX(0)>>,
     <<StepCNOT(0, 1), StepX(0), StepCNOT(0, 1)>>,
     <<StepCNOT(0, 1), StepX(1), StepX(1), StepCNOT(0, 1)>>,
     <<StepRot("RZ", 0, 1), StepRot("RZ", 0, 1), StepRot("RZ", 0, -1)>>,
     <<StepRot("RZ", 0, 1), StepCNOT(0, 1), StepCNOT(0, 1), StepH(0),
       StepCNOT(0, 1), StepCNOT(0, 1), StepRot("RZ", 0, 1)>>}

\* the step lists arrive sorted by timestep: step i is at timestep i - 1
StampTimesteps(list) == [i \in 1..Len(list) |-> [list[i] EXCEPT !.timestep = i - 1]]

OptLevels == {0, 1, 2}

NoOp == [kind |-> "none", pairs |-> {}, a |-> 0, b |-> 0, before |-> EmptyDAG]

OptBlank ==
    [pc |-> "start", run |-> 1, level |-> 1, input |-> <<>>, steps |-> <<>>,
     dag |-> EmptyDAG, pass |-> 1, out1 |-> <<>>, out |-> <<>>, last |-> NoOp]

\* a call of optimize_circuit at some level, or a caller that builds the DAG
\* with from_circuit and removes nodes itself
OptInit ==
    /\ \E c \in SeqsUpTo(OptAlphabet, 0, MaxOptGates) \cup OptScenarios :
         \/ \E level \in OptLevels :
              opt = [OptBlank EXCEPT !.level = level, !.input = StampTimesteps(c),
                                     !.steps = StampTimesteps(c)]
         \/ opt = [OptBlank EXCEPT !.pc = "dag_start", !.input = StampTimesteps(c),
                                   !.steps = StampTimesteps(c)]
    /\ layout = IdleLayout
    /\ layoutOp = IdleLayoutOp
    /\ rt = IdleRt
    /\ kern = IdleKern
    /\ vm = IdleVm
    /\ exec = IdleExec
    /\ nz = IdleNoise

OptPasses == PassesOf(opt.level)

OptInPass(name) ==
    opt.pc = "pass" /\ opt.pass <= Len(OptPasses) /\ OptPasses[opt.pass] = name

\* optimize_circuit, lines 267-273
OptStart ==
    /\ opt.pc = "start"
    /\ IF opt.level = 0
       THEN opt' = [opt EXCEPT !.pc = "returned", !.out = opt.steps, !.last = NoOp]
       ELSE \E dag \in FromCircuit(opt.steps) :
               opt' = [opt EXCEPT !.pc = "pass", !.pass = 1, !.dag = dag,
                                  !.last = NoOp]
    /\ UNCHANGED <<layout, layoutOp, rt, kern, vm, exec, nz>>

\* GateCancellation.run: a turn of the while loop that cancels pairs
CancelIteration ==
    /\ OptInPass("GateCancellation")
    /\ \E sc \in CancelScan(opt.dag, NodeIds(opt.dag), 1, [remove |-> {}, pairs |-> {}]) :
         /\ sc.pairs # {}
         /\ \E dag \in RemoveAll(opt.dag, sc.remove) :
              opt' = [opt EXCEPT !.dag = dag,
                                 !.last = [NoOp EXCEPT !.kind = "cancel",
                                                       !.pairs = sc.pairs,
                                                       !.before = opt.dag]]
    /\ UNCHANGED <<layout, layoutOp, rt, kern, vm, exec, nz>>

\* GateCancellation.run: the last turn, which changes nothing
CancelFixpoint ==
    /\ OptInPass("GateCancellation")
    /\ \E sc \in CancelScan(opt.dag, NodeIds(opt.dag), 1, [remove |-> {}, pairs |-> {}]) :
         sc.pairs = {}
    /\ opt' = [opt EXCEPT !.pass = opt.pass + 1,
                          !.last = [NoOp EXCEPT !.kind = "cancel_end"]]
    /\ UNCHANGED <<layout, layoutOp, rt, kern, vm, exec, nz>>

\* GateFusion.run: a turn of the while loop that fuses the first rotation
\* that has a partner
FuseIteration ==
    /\ OptInPass("GateFusion")
    /\ Fusable(opt.dag) # {}
    /\ LET node_id == CHOOSE n \in Fusable(opt.dag) : \A m \in Fusable(opt.dag) : n <= m
       IN  \E succ_id \in FusePartners(opt.dag, node_id) :
              opt' = [opt EXCEPT !.dag = Fuse(opt.dag, node_id, succ_id),
                                 !.last = [NoOp EXCEPT !.kind = "fuse", !.a = node_id,
                                                       !.b = succ_id,
                                                       !.before = opt.dag]]
    /\ UNCHANGED <<layout, layoutOp, rt, kern, vm, exec, nz>>

\* GateFusion.run: the last turn, which changes nothing
FuseFixpoint ==
    /\ OptInPass("GateFusion")
    /\ Fusable(opt.dag) = {}
    /\ opt' = [opt EXCEPT !.pass = opt.pass + 1,
                          !.last = [NoOp EXCEPT !.kind = "fuse_end"]]
    /\ UNCHANGED <<layout, layoutOp, rt, kern, vm, exec, nz>>

\* CommutationAnalysis.run: it inspects the DAG and changes nothing
CommutationRun ==
    /\ OptInPass("CommutationAnalysis")
    /\ opt' = [opt EXCEPT !.pass = opt.pass + 1, !.last = NoOp]
    /\ UNCHANGED <<layout, layoutOp, rt, kern, vm, exec, nz>>

\* optimize_circuit, line 298
OptReturn ==
    /\ opt.pc = "pass"
    /\ opt.pass > Len(OptPasses)
    /\ \E out \in ToCircuit(opt.dag) :
         opt' = [opt EXCEPT !.pc = "returned", !.out = out, !.last = NoOp]
    /\ UNCHANGED <<layout, layoutOp, rt, kern, vm, exec, nz>>

\* the caller optimizes the returned list once more, at the same level
OptAgain ==
    /\ opt.pc = "returned"
    /\ opt.run = 1
    /\ opt.level >= 1
    /\ opt' = [opt EXCEPT !.pc = "start", !.run = 2, !.steps = opt.out,
                          !.out1 = opt.out, !.out = <<>>, !.dag = EmptyDAG,
                          !.pass = 1]
    /\ UNCHANGED <<layout, layoutOp, rt, kern, vm, exec, nz>>

\* CircuitDAG.from_circuit, called on its own
DagFromCircuit ==
    /\ opt.pc = "dag_start"
    /\ \E dag \in FromCircuit(opt.steps) :
         opt' = [opt EXCEPT !.pc = "dag", !.dag = dag, !.last = NoOp]
    /\ UNCHANGED <<layout, layoutOp, rt, kern, vm, exec, nz>>

\* CircuitDAG.remove_node, called on any node of the DAG
DagRemoveNode ==
    /\ opt.pc = "dag"
    /\ \E node_id \in DOMAIN opt.dag.nodes :
         opt' = [opt EXCEPT !.dag = RemoveNode(opt.dag, node_id),
                            !.last = [NoOp EXCEPT !.kind = "remove", !.a = node_id,
                                                  !.before = opt.dag]]
    /\ UNCHANGED <<layout, layoutOp, rt, kern, vm, exec, nz>>

OptNext ==
    \/ OptStart
    \/ DagFromCircuit
    \/ DagRemoveNode
    \/ CancelIteration
    \/ CancelFixpoint
    \/ FuseIteration
    \/ FuseFixpoint
    \/ CommutationRun
    \/ OptReturn
    \/ OptAgain

SpecOpt == OptInit /\ [][OptNext]_vars

(***************************************************************************)
(* The kernel state machine: a state-vector kernel and a Clifford kernel   *)
(* are initialized with the same number of qubits and given the same       *)
(* gates; get_probabilities is read from both.                             *)
(***************************************************************************)
MaxKernelGates == 2

KernelQubits == {1, 2, 3}

SingleQubitGates == {"H", "S", "SDG", "X", "Y", "Z"}

ControlledGates == {"CNOT", "CZ"}

KernInit ==
    /\ \E n \in KernelQubits :
         kern = [pc |-> "new", n |-> n, sv |-> SvInitialize(0), cf |-> CfInitialize(0),
                 gates |-> <<>>, read |-> FALSE,
                 sv_probs |-> EmptyDict, cf_probs |-> EmptyDict]
    /\ layout = IdleLayout
    /\ layoutOp = IdleLayoutOp
    /\ rt = IdleRt
    /\ opt = IdleOpt
    /\ vm = IdleVm
    /\ exec = IdleExec
    /\ nz = IdleNoise

\* initialize(num_qubits) on both kernels
KernInitialize ==
    /\ kern.pc = "new"
    /\ kern' = [kern EXCEPT !.pc = "ready", !.sv = SvInitialize(kern.n),
                            !.cf = CfInitialize(kern.n)]
    /\ UNCHANGED <<layout, layoutOp, rt, opt, vm, exec, nz>>

KernCanApply == kern.pc = "ready" /\ Len(kern.gates) < MaxKernelGates

\* apply_gate(gate_type, target) on both kernels
KernApplyGate ==
    /\ KernCanApply
    /\ \E gate_type \in SingleQubitGates, target \in 0..(kern.n - 1) :
         kern' = [kern EXCEPT !.sv = SvApplyGate(kern.sv, gate_type, target),
                              !.cf = CfApplyGate(kern.cf, gate_type, target),
                              !.gates = Append(kern.gates, <<gate_type, <<target>>>>),
                              !.read = FALSE]
    /\ UNCHANGED <<layout, layoutOp, rt, opt, vm, exec, nz>>

\* apply_controlled_gate(gate_type, [control], target) on both kernels
KernApplyControlledGate ==
    /\ KernCanApply
    /\ \E gate_type \in ControlledGates, control, target \in 0..(kern.n - 1) :
         /\ control # target
         /\ kern' = [kern EXCEPT
                !.sv = SvApplyControlledGate(kern.sv, gate_type, <<control>>, target),
                !.cf = CfApplyControlledGate(kern.cf, gate_type, <<control>>, target),
                !.gates = Append(kern.gates, <<gate_type, <<control, target>>>>),
                !.read = FALSE]
    /\ UNCHANGED <<layout, layoutOp, rt, opt, vm, exec, nz>>

\* apply_controlled_gate("CCNOT", [c1, c2], target) on both kernels, the two
\* controls possibly the same qubit: the state-vector kernel applies it, the
\* Clifford kernel raises ValueError (more than one control) and the run ends
KernApplyMultiControlled ==
    /\ KernCanApply
    /\ \E c1, c2, target \in 0..(kern.n - 1) :
         kern' = [kern EXCEPT
                !.pc = "raised",
                !.sv = SvApplyControlledGate(kern.sv, "CCNOT", <<c1, c2>>, target),
                !.gates = Append(kern.gates, <<"CCNOT", <<c1, c2, target>>>>),
                !.read = FALSE]
    /\ UNCHANGED <<layout, layoutOp, rt, opt, vm, exec, nz>>

\* apply_swap(q1, q2) on both kernels
KernApplySwap ==
    /\ KernCanApply
    /\ \E q1, q2 \in 0..(kern.n - 1) :
         /\ q1 # q2
         /\ kern' = [kern EXCEPT !.sv = SvApplySwap(kern.sv, q1, q2),
                                 !.cf = CfApplySwap(kern.cf, q1, q2),
                                 !.gates = Append(kern.gates, <<"SWAP", <<q1, q2>>>>),
                                 !.read = FALSE]
    /\ UNCHANGED <<layout, layoutOp, rt, opt, vm, exec, nz>>

\* get_probabilities() on both kernels; the Clifford kernel restores its
\* tableau after every sample
KernGetProbabilities ==
    /\ kern.pc = "ready"
    /\ ~kern.read
    /\ kern' = [kern EXCEPT !.read = TRUE,
                            !.sv_probs = SvGetProbabilities(kern.sv),
                            !.cf_probs = CfGetProbabilities(kern.cf)]
    /\ UNCHANGED <<layout, layoutOp, rt, opt, vm, exec, nz>>

KernNext ==
    \/ KernInitialize
    \/ KernApplyGate
    \/ KernApplyControlledGate
    \/ KernApplyMultiControlled
    \/ KernApplySwap
    \/ KernGetProbabilities

SpecKernel == KernInit /\ [][KernNext]_vars

(***************************************************************************)
(* dynamic_circuits.py : ClassicalRegister, Instruction, DynamicCircuitVM  *)
(*                                                                         *)
(* An Instruction's condition is <<>> for None and <<creg_index,           *)
(* expected_value>> otherwise.  The VM state an instruction acts on is     *)
(* [sv, creg]; an instruction that measures has one result per outcome the *)
(* random number can give, so executing yields a set of states.            *)
(***************************************************************************)
\* a register whose unwritten bits read 1
CregGetDefaultOne(creg, index) == IF index \in DOMAIN creg THEN creg[index] ELSE 1

\* ClassicalRegister.get
CregGet(creg, index) == IF index \in DOMAIN creg THEN creg[index] ELSE 0

\* ClassicalRegister.set
CregSet(creg, index, value) == DictSet(creg, index, value % 2)

Instruction(op_type, qubits, classical_bits, gate_type, condition, body) ==
    [op_type |-> op_type, qubits |-> qubits, classical_bits |-> classical_bits,
     gate_type |-> gate_type, condition |-> condition, body |-> body]

\* DynamicCircuitVM.add_gate
GateInstr(gate_type, qubits, condition) ==
    Instruction("gate", qubits, <<>>, gate_type, condition, <<>>)

\* DynamicCircuitVM.add_measurement
MeasureInstr(qubit, classical_bit, condition) ==
    Instruction("measure", <<qubit>>, <<classical_bit>>, "", condition, <<>>)

\* DynamicCircuitVM.add_reset
ResetInstr(qubit) == Instruction("reset", <<qubit>>, <<>>, "", <<>>, <<>>)

\* DynamicCircuitVM.add_conditional
IfInstr(creg_index, expected_value, body) ==
    Instruction("if", <<>>, <<>>, "", <<creg_index, expected_value>>, body)

\* a condition that lets every instruction run
ConditionAlways(creg, condition) == TRUE

\* execute_instruction, lines 134-137: None, or the bit has the expected value
ConditionMet(creg, condition) ==
    condition = <<>> \/ CregGet(creg, condition[1]) = condition[2]

\* DynamicCircuitVM._execute_gate
VmExecuteGate(st, instr) ==
    IF Len(instr.qubits) = 1
    THEN [st EXCEPT !.sv = SvApplyGate(st.sv, instr.gate_type, instr.qubits[1])]
    ELSE IF Len(instr.qubits) = 2
    THEN IF instr.gate_type = "SWAP"
         THEN [st EXCEPT !.sv = SvApplySwap(st.sv, instr.qubits[1], instr.qubits[2])]
         ELSE [st EXCEPT !.sv = SvApplyControlledGate(st.sv, instr.gate_type,
                                    <<instr.qubits[1]>>, instr.qubits[2])]
    ELSE st

\* DynamicCircuitVM._execute_measure
VmExecuteMeasure(st, instr) ==
    {[st EXCEPT !.sv = SvCollapse(st.sv, instr.qubits[1], result),
                !.creg = CregSet(st.creg, instr.classical_bits[1], result)] :
        result \in SvMeasureOutcomes(st.sv, instr.qubits[1])}

\* DynamicCircuitVM._execute_reset
VmExecuteReset(st, instr) ==
    {LET collapsed == SvCollapse(st.sv, instr.qubits[1], result)
     IN  [st EXCEPT !.sv = IF result = 1
                           THEN SvApplyGate(collapsed, "X", instr.qubits[1])
                           ELSE collapsed] :
        result \in SvMeasureOutcomes(st.sv, instr.qubits[1])}

\* DynamicCircuitVM.execute_instruction.  st.executed counts the
\* instructions that got past the condition check of lines 134-137.
RECURSIVE ExecuteInstruction(_, _)
RECURSIVE ExecuteBody(_, _, _)
ExecuteInstruction(st, instr) ==
    IF ~ConditionMet(st.creg, instr.condition) THEN {st}
    ELSE LET s1 == [st EXCEPT !.executed = @ + 1]
         IN  IF instr.op_type = "gate" THEN {VmExecuteGate(s1, instr)}
             ELSE IF instr.op_type = "measure" THEN VmExecuteMeasure(s1, instr)
             ELSE IF instr.op_type = "reset" THEN VmExecuteReset(s1, instr)
             ELSE IF instr.op_type = "if" THEN ExecuteBody({s1}, instr.body, 1)
             ELSE {s1}

\* for body_instr in instr.body: self.execute_instruction(body_instr)
ExecuteBody(sts, body, j) ==
    IF j > Len(body) THEN sts
    ELSE ExecuteBody(UNION {ExecuteInstruction(s, body[j]) : s \in sts}, body, j + 1)

(***************************************************************************)
(* One shot of the dynamic VM: reset, then one instruction per step, then  *)
(* the final sample of run_single_shot.                                    *)
(***************************************************************************)
MaxVmInstr == 2

\* state preparations on qubit 0: |0>, |1>, |+>, |->, |+i>, |-i>
VmPreparations ==
    {<<>>, <<"X">>, <<"H">>, <<"X", "H">>, <<"H", "S">>, <<"X", "H", "S">>}

\* the teleportation program on 3 qubits and 2 classical bits
TeleportProgram(prep) ==
    [j \in 1..Len(prep) |-> GateInstr(prep[j], <<0>>, <<>>)] \o
    <<GateInstr("H", <<1>>, <<>>),
      GateInstr("CNOT", <<1, 2>>, <<>>),
      GateInstr("CNOT", <<0, 1>>, <<>>),
      GateInstr("H", <<0>>, <<>>),
      MeasureInstr(0, 0, <<>>),
      MeasureInstr(1, 1, <<>>),
      GateInstr("X", <<2>>, <<1, 1>>),
      GateInstr("Z", <<2>>, <<0, 1>>)>>

VmConditions == {<<>>, <<0, 0>>, <<0, 1>>}

\* instructions of every kind on 2 qubits and 1 classical bit
VmAlphabet ==
    {GateInstr(g, <<q>>, c) : g \in {"H", "X"}, q \in {0, 1}, c \in VmConditions}
    \cup {GateInstr("CNOT", <<0, 1>>, c) : c \in VmConditions}
    \cup {GateInstr("SWAP", <<0, 1>>, <<>>)}
    \cup {MeasureInstr(q, 0, c) : q \in {0, 1}, c \in VmConditions}
    \cup {ResetInstr(0)}
    \cup {IfInstr(0, v, <<GateInstr("X", <<1>>, <<>>), MeasureInstr(1, 0, <<>>)>>) :
            v \in {0, 1}}
    \cup {Instruction("barrier", <<>>, <<>>, "", <<>>, <<>>)}

VmBlank ==
    [pc |-> "new", num_qubits |-> 0, num_classical |-> 0, instructions |-> <<>>,
     instruction_pointer |-> 0, sv |-> SvInitialize(0), creg |-> EmptyDict,
     executed |-> 0, final_state |-> <<>>]

\* DynamicCircuitVM.__init__ and the add_* calls that load the program
VmInit ==
    /\ \/ \E prep \in VmPreparations :
            vm = [VmBlank EXCEPT !.num_qubits = 3, !.num_classical = 2,
                                 !.instructions = TeleportProgram(prep)]
       \/ \E prog \in SeqsUpTo(VmAlphabet, 0, MaxVmInstr) :
            vm = [VmBlank EXCEPT !.num_qubits = 2, !.num_classical = 1,
                                 !.instructions = prog]
    /\ layout = IdleLayout
    /\ layoutOp = IdleLayoutOp
    /\ rt = IdleRt
    /\ opt = IdleOpt
    /\ kern = IdleKern
    /\ exec = IdleExec
    /\ nz = IdleNoise

\* DynamicCircuitVM.reset, called first by run_single_shot
VmReset ==
    /\ vm.pc = "new"
    /\ vm' = [vm EXCEPT !.pc = "running", !.sv = SvInitialize(vm.num_qubits),
                        !.creg = EmptyDict, !.instruction_pointer = 0,
                        !.executed = 0]
    /\ UNCHANGED <<layout, layoutOp, rt, opt, kern, exec, nz>>

\* run_single_shot, one turn of `for instr in self.instructions`
VmExecuteInstruction ==
    /\ vm.pc = "running"
    /\ vm.instruction_pointer < Len(vm.instructions)
    /\ \E st \in ExecuteInstruction([sv |-> vm.sv, creg |-> vm.creg,
                                     executed |-> vm.executed],
                                    vm.instructions[vm.instruction_pointer + 1]) :
         vm' = [vm EXCEPT !.sv = st.sv, !.creg = st.creg, !.executed = st.executed,
                          !.instruction_pointer = vm.instruction_pointer + 1]
    /\ UNCHANGED <<layout, layoutOp, rt, opt, kern, exec, nz>>

\* run_single_shot, lines 196-210: one basis string drawn from the final
\* probabilities
VmSample ==
    /\ vm.pc = "running"
    /\ vm.instruction_pointer = Len(vm.instructions)
    /\ \E state \in DOMAIN SvGetProbabilities(vm.sv) :
         vm' = [vm EXCEPT !.pc = "done", !.final_state = state]
    /\ UNCHANGED <<layout, layoutOp, rt, opt, kern, exec, nz>>

VmNext ==
    \/ VmReset
    \/ VmExecuteInstruction
    \/ VmSample

SpecVm == VmInit /\ [][VmNext]_vars

(***************************************************************************)
(* kernels/kernel_manager.py : KernelManager                               *)
(***************************************************************************)
CLIFFORD_GATES == {"H", "S", "SDG", "X", "Y", "Z", "CNOT", "CZ", "SWAP"}

\* KernelManager.__init__: max_statevector_qubits
MaxStatevectorQubits == 25

\* KernelManager.analyze_circuit: is_clifford_only (gateType upper-cased,
\* not passed through GATE_TYPE_MAP)
IsCliffordOnly(circuit_steps) ==
    {Upper(circuit_steps[j].gateType) : j \in 1..Len(circuit_steps)}
        \subseteq (CLIFFORD_GATES \cup {"MEASUREMENT", "I"})

\* KernelManager.select_kernel
SelectKernel(num_qubits, is_clifford_only) ==
    IF num_qubits > MaxStatevectorQubits
    THEN IF is_clifford_only THEN "clifford" ELSE "tensor_network"
    ELSE "statevector"

(***************************************************************************)
(* circuit_executor.py : CircuitExecutor.execute on the state-vector       *)
(* kernel, for step lists whose gates keep a basis state a basis state (up *)
(* to phase): the register is the set of qubits that read 1.  What the     *)
(* kernel's loops raise does not depend on the amplitudes: they visit      *)
(* every index i in range(2 ** n) and read state[i | mask].                *)
(***************************************************************************)
\* the keys of GATE_MAP whose gates are diagonal or a permutation
KnownGates == {"I", "X", "Z", "S", "SDG", "T", "TDG"}

NoError == "None"

\* 1 << q raises ValueError for a negative q
ShiftRaises(qs) == \E j \in 1..Len(qs) : qs[j] < 0

\* StatevectorKernel.apply_gate / _apply_single_qubit_gate: the exception
\* raised, if any
ApplyGateError(n, gate_type, target) ==
    IF gate_type \notin KnownGates THEN NoError
    ELSE IF target < 0 THEN "ValueError"
    ELSE IF target >= n THEN "IndexError"
    ELSE NoError

\* StatevectorKernel.apply_controlled_gate: state[i | target_mask] is read
\* for an index i below 2 ** n that has every control bit set
ApplyControlledGateError(n, controls, target) ==
    IF target < 0 \/ ShiftRaises(controls) THEN "ValueError"
    ELSE IF target >= n /\ \A j \in 1..Len(controls) : controls[j] < n THEN "IndexError"
    ELSE NoError

\* StatevectorKernel.apply_swap: state[i ^ mask1 ^ mask2] is read for an
\* index i whose two bits differ
ApplySwapError(n, q1, q2) ==
    IF q1 < 0 \/ q2 < 0 THEN "ValueError"
    ELSE IF (q1 >= n) # (q2 >= n) THEN "IndexError"
    ELSE NoError

\* StatevectorKernel.measure: no index beyond i is read
MeasureError(n, qubit) == IF qubit < 0 THEN "ValueError" ELSE NoError

\* CircuitExecutor._execute_step: the exception that leaves it, if any
ExecuteStepError(step, n) ==
    LET gate_type == NormalizeGateType(step.gateType)
        controls == Get(step.controls, <<>>)
        targets == Get(step.targets, <<>>)
    IN  CASE gate_type = "MEASUREMENT" -> MeasureError(n, Get(step.qubit, 0))
          [] gate_type \in {"CNOT", "CCNOT", "CZ"} ->
                IF targets # <<>> THEN ApplyControlledGateError(n, controls, targets[1])
                ELSE NoError
          [] gate_type = "SWAP" ->
                IF Len(targets) >= 2 THEN ApplySwapError(n, targets[1], targets[2])
                ELSE NoError
          [] OTHER -> ApplyGateError(n, gate_type, Get(step.qubit, 0))

\* CircuitExecutor._execute_step: the register after a step that returns
ExecuteStep(ones, step, n) ==
    LET gate_type == NormalizeGateType(step.gateType)
        targets == Get(step.targets, <<>>)
    IN  IF gate_type = "SWAP" /\ Len(targets) >= 2
           /\ targets[1] >= n /\ targets[2] >= n
        THEN ones
        ELSE ExecuteStepBasis(ones, step)

MaxExecSteps == 2

LargeRegister == MaxStatevectorQubits + 1

ExecQubits == {1, 2, LargeRegister}

StepOn(gateType, q) == Step(gateType, <<q>>, <<>>, <<>>, <<>>, 0)

StepControlled(gateType, controls, targets) ==
    Step(gateType, <<>>, controls, targets, <<>>, 0)

\* steps with and without their fields, on qubits in and out of a small register
ExecAlphabet ==
    {StepOn("X", q) : q \in {0, 1, 2, -1}}
    \cup {StepOn("T", 0), StepOn("FOO", 2),
          Step("x", <<>>, <<>>, <<>>, <<>>, 0),
          StepOn("MEASUREMENT", 0), StepOn("M", 2)}
    \cup {StepControlled("CNOT", <<<<0>>>>, <<<<1>>>>),
          StepControlled("CX", <<<<0>>>>, <<<<2>>>>),
          StepControlled("CNOT", <<<<2>>>>, <<<<0>>>>),
          StepControlled("CNOT", <<>>, <<<<0>>>>),
          StepControlled("CNOT", <<<<0>>>>, <<>>),
          StepControlled("CZ", <<>>, <<<<1>>>>),
          StepControlled("CCNOT", <<<<0, 1>>>>, <<<<2>>>>),
          StepControlled("CCNOT", <<<<0, 1>>>>, <<>>)}
    \cup {StepControlled("SWAP", <<>>, <<<<0, 1>>>>),
          StepControlled("SWAP", <<>>, <<<<0, 2>>>>),
          StepControlled("SWAP", <<>>, <<<<2, 3>>>>),
          StepControlled("SWAP", <<>>, <<<<0>>>>)}

ExecBlank ==
    [pc |-> "new", num_qubits |-> 0, circuit_steps |-> <<>>, kernel_type |-> "",
     kernel |-> "None", done |-> 0, ones |-> {}, error |-> NoError,
     diagnostics |-> <<>>, probabilities |-> {}]

\* CircuitExecutor() and the arguments of execute, noise_level 0
ExecInit ==
    /\ \E n \in ExecQubits, steps \in SeqsUpTo(ExecAlphabet, 0, MaxExecSteps) :
         exec = [ExecBlank EXCEPT !.num_qubits = n, !.circuit_steps = steps]
    /\ layout = IdleLayout
    /\ layoutOp = IdleLayoutOp
    /\ rt = IdleRt
    /\ opt = IdleOpt
    /\ kern = IdleKern
    /\ vm = IdleVm
    /\ nz = IdleNoise

\* execute, lines 49-71: the kernel is chosen, created and initialized
ExecCreateKernel ==
    /\ exec.pc = "new"
    /\ exec' = [exec EXCEPT
                  !.pc = "running",
                  !.kernel_type = SelectKernel(exec.num_qubits,
                                               IsCliffordOnly(exec.circuit_steps)),
                  !.kernel = "StatevectorKernel",
                  !.ones = {}]
    /\ UNCHANGED <<layout, layoutOp, rt, opt, kern, vm, nz>>

\* execute, lines 74-75: one turn of the loop, the step returning
ExecStepReturns ==
    /\ exec.pc = "running"
    /\ exec.done < Len(exec.circuit_steps)
    /\ LET step == exec.circuit_steps[exec.done + 1]
       IN  /\ ExecuteStepError(step, exec.num_qubits) = NoError
           /\ exec' = [exec EXCEPT !.done = exec.done + 1,
                                   !.ones = ExecuteStep(exec.ones, step, exec.num_qubits)]
    /\ UNCHANGED <<layout, layoutOp, rt, opt, kern, vm, nz>>

\* execute, lines 74-75: one turn of the loop, the step raising; the
\* exception leaves execute
ExecStepRaises ==
    /\ exec.pc = "running"
    /\ exec.done < Len(exec.circuit_steps)
    /\ LET step == exec.circuit_steps[exec.done + 1]
       IN  /\ ExecuteStepError(step, exec.num_qubits) # NoError
           /\ exec' = [exec EXCEPT !.pc = "raised",
                                   !.error = ExecuteStepError(step, exec.num_qubits)]
    /\ UNCHANGED <<layout, layoutOp, rt, opt, kern, vm, nz>>

\* execute, lines 77-81: the probabilities of the basis state, keyed by the
\* set of qubits that read 1
ExecReturn ==
    /\ exec.pc = "running"
    /\ exec.done = Len(exec.circuit_steps)
    /\ exec' = [exec EXCEPT !.pc = "returned", !.probabilities = {exec.ones}]
    /\ UNCHANGED <<layout, layoutOp, rt, opt, kern, vm, nz>>

ExecNext ==
    \/ ExecCreateKernel
    \/ ExecStepReturns
    \/ ExecStepRaises
    \/ ExecReturn

SpecExec == ExecInit /\ [][ExecNext]_vars

(***************************************************************************)
(* kernels/noise_model.py and the noise hook of kernels/statevector.py     *)
(*                                                                         *)
(* A state-vector kernel is created with or without a NoiseModel and given *)
(* gates and measurements.  The noise model is the one CircuitExecutor     *)
(* builds: {'global': {'depolarizing': rate, 'T1': 0, 'T2': 0}}, so the T1 *)
(* and T2 branches of apply_gate_noise are not taken.  The rate is in      *)
(* percent and the random draw r in hundredths.  apply_gate calls          *)
(* apply_gate_noise, whose depolarizing channel calls apply_gate again:    *)
(* nz.depth is the number of apply_gate frames on the call stack, and the  *)
(* interpreter raises RecursionError when the stack is full.               *)
(***************************************************************************)
NoiseQubits == 2

MaxNoiseOps == 2

\* the number of nested apply_gate frames the interpreter's stack holds
MaxNoiseDepth == 3

DepolarizingRates == {0, 50, 100}

RandomDraws == {0, 20, 40, 70, 99}

\* NoiseModel._apply_depolarizing: the Pauli applied for the draw r, "none"
\* when there is none
DepolarizingPauli(p, r) ==
    IF p <= 0 THEN "none"
    ELSE IF 3 * r < p THEN "X"
    ELSE IF 3 * r < 2 * p THEN "Y"
    ELSE IF 3 * r < 3 * p THEN "Z"
    ELSE "none"

NoRounds == [q \in 0..(NoiseQubits - 1) |-> 0]

\* StatevectorKernel.__init__
NoiseInit ==
    /\ \E attached \in BOOLEAN, rate \in DepolarizingRates :
         /\ (~attached => rate = 0)
         /\ nz = [pc |-> "new", attached |-> attached, depolarizing_rate |-> rate,
                  sv |-> SvInitialize(0), depth |-> 0, ops |-> 0, qubit |-> 0,
                  last |-> [call |-> "none", qubits |-> {}], rounds |-> NoRounds]
    /\ layout = IdleLayout
    /\ layoutOp = IdleLayoutOp
    /\ rt = IdleRt
    /\ opt = IdleOpt
    /\ kern = IdleKern
    /\ vm = IdleVm
    /\ exec = IdleExec

\* StatevectorKernel.initialize
NoiseInitialize ==
    /\ nz.pc = "new"
    /\ nz' = [nz EXCEPT !.pc = "ready", !.sv = SvInitialize(NoiseQubits)]
    /\ UNCHANGED <<layout, layoutOp, rt, opt, kern, vm, exec>>

NoiseCanApply == nz.pc = "ready" /\ nz.ops < MaxNoiseOps

\* StatevectorKernel.apply_gate called for a circuit gate: an unknown gate
\* returns at once; otherwise the gate is applied and, with a noise model,
\* apply_gate_noise is entered
NoiseApplyGate ==
    /\ NoiseCanApply
    /\ \E gate_type \in {"H", "X", "FOO"}, target \in 0..(NoiseQubits - 1) :
         IF gate_type \notin DOMAIN GATE_MAP
         THEN nz' = [nz EXCEPT !.ops = @ + 1, !.rounds = NoRounds,
                               !.last = [call |-> "skipped", qubits |-> {target}]]
         ELSE nz' = [nz EXCEPT !.ops = @ + 1, !.rounds = NoRounds,
                               !.sv = SvApplyGate(nz.sv, gate_type, target),
                               !.last = [call |-> "apply_gate", qubits |-> {target}],
                               !.qubit = target,
                               !.depth = IF nz.attached THEN 1 ELSE 0,
                               !.pc = IF nz.attached THEN "noise" ELSE "ready"]
    /\ UNCHANGED <<layout, layoutOp, rt, opt, kern, vm, exec>>

\* NoiseModel.apply_gate_noise, entered from the innermost apply_gate frame:
\* the depolarizing channel draws r and either returns, so that every frame
\* returns, or calls kernel.apply_gate with a Pauli, which applies it and
\* enters apply_gate_noise again
NoiseApplyGateNoise ==
    /\ nz.pc = "noise"
    /\ \E r \in RandomDraws :
         LET pauli == DepolarizingPauli(nz.depolarizing_rate, r)
             counted == [nz EXCEPT !.rounds[nz.qubit] = @ + 1]
         IN  IF nz.depolarizing_rate > 0 /\ pauli # "none"
             THEN IF nz.depth >= MaxNoiseDepth
                  THEN nz' = [counted EXCEPT !.pc = "raised"]
                  ELSE nz' = [counted EXCEPT
                                !.sv = SvApplyGate(nz.sv, pauli, nz.qubit),
                                !.depth = @ + 1]
             ELSE nz' = [counted EXCEPT !.pc = "ready", !.depth = 0]
    /\ UNCHANGED <<layout, layoutOp, rt, opt, kern, vm, exec>>

\* StatevectorKernel.apply_controlled_gate
NoiseApplyControlledGate ==
    /\ NoiseCanApply
    /\ \E gate_type \in {"CNOT", "CZ"}, control, target \in 0..(NoiseQubits - 1) :
         /\ control # target
         /\ nz' = [nz EXCEPT !.ops = @ + 1, !.rounds = NoRounds,
                     !.sv = SvApplyControlledGate(nz.sv, gate_type, <<control>>, target),
                     !.last = [call |-> "apply_controlled_gate",
                               qubits |-> {control, target}]]
    /\ UNCHANGED <<layout, layoutOp, rt, opt, kern, vm, exec>>

\* StatevectorKernel.apply_swap
NoiseApplySwap ==
    /\ NoiseCanApply
    /\ \E q1, q2 \in 0..(NoiseQubits - 1) :
         /\ q1 # q2
         /\ nz' = [nz EXCEPT !.ops = @ + 1, !.rounds = NoRounds,
                     !.sv = SvApplySwap(nz.sv, q1, q2),
                     !.last = [call |-> "apply_swap", qubits |-> {q1, q2}]]
    /\ UNCHANGED <<layout, layoutOp, rt, opt, kern, vm, exec>>

\* StatevectorKernel.measure
NoiseMeasure ==
    /\ NoiseCanApply
    /\ \E qubit \in 0..(NoiseQubits - 1) :
         \E outcome \in SvMeasureOutcomes(nz.sv, qubit) :
            nz' = [nz EXCEPT !.ops = @ + 1, !.rounds = NoRounds,
                     !.sv = SvCollapse(nz.sv, qubit, outcome),
                     !.last = [call |-> "measure", qubits |-> {qubit}]]
    /\ UNCHANGED <<layout, layoutOp, rt, opt, kern, vm, exec>>

NoiseNext ==
    \/ NoiseInitialize
    \/ NoiseApplyGate
    \/ NoiseApplyGateNoise
    \/ NoiseApplyControlledGate
    \/ NoiseApplySwap
    \/ NoiseMeasure

SpecNoise == NoiseInit /\ [][NoiseNext]_vars

\* the logical qubits that read 1 when the routed circuit has run on the
\* physical qubits and each logical qubit is read at its final position
ReadBack(routed, L, qubits) ==
    {q \in qubits : LayoutGetPhysical(L, q) \in BasisRun(routed, 1, {})}

RouteDone == rt.mode = "route" /\ rt.pc = "returned"

(* C1: every two-qubit gate in the list route returns, whether a routed    *)
(* input gate or an inserted SWAP, acts on a physical pair (p1, p2) with   *)
(* coupling_map.is_connected(p1, p2).                                      *)
C1_RoutedGatesOnConnectedPairs ==
    \A i \in 1..Len(rt.routed) :
        Len(rt.routed[i].qubits) = 2 =>
            IsConnected(CMapOf(rt.cmap), rt.routed[i].qubits[1], rt.routed[i].qubits[2])

\* a returned routing from a caller's layout that needed a SWAP and then
\* emitted a two-qubit input gate
C1_Witness ==
    /\ RouteDone
    /\ rt.init # <<>>
    /\ rt.num_swaps >= 1
    /\ \E i, j \in 1..Len(rt.routed) :
        /\ i < j
        /\ rt.routed[i].gate_type = "SWAP"
        /\ rt.routed[j].gate_type = "CNOT"

(* C2: the gate list route returns, run on the physical qubits and read    *)
(* back through the final layout, leaves every logical qubit with the      *)
(* value the original circuit gives it (X / CNOT / SWAP circuits whose     *)
(* routing ran to completion).                                             *)
C2_RoutedEquivalentToOriginal ==
    (RouteDone /\ rt.remaining = <<>> /\ IsBasisCircuit(rt.gates)) =>
        ReadBack(rt.routed, rt.layout, UsedQubits(rt.gates))
            = BasisRun(rt.gates, 1, {})

(* C6: transpiling the single gate CNOT(0,4) on the linear backend inserts *)
(* exactly three SWAPs under every tie-break of the candidate scan, and    *)
(* with decompose_swaps=True the reported transpiled_depth is at least 7.  *)
C6Input == <<Step("CNOT", <<>>, <<<<0>>>>, <<<<4>>>>, <<>>, 0)>>

C6_ThreeSwapsDepthSeven ==
    (rt.mode = "transpile" /\ rt.steps = C6Input) =>
        /\ rt.num_swaps <= 3
        /\ rt.pc = "loop" /\ rt.remaining = <<>> => rt.num_swaps = 3
        /\ rt.pc \in {"returned", "transpiled"} =>
              /\ rt.num_swaps = 3
              /\ rt.remaining = <<>>
        /\ rt.pc # "raised"
        /\ (rt.pc = "transpiled" /\ rt.decompose) => rt.transpiled_depth >= 7

C6_Witness ==
    /\ rt.mode = "transpile"
    /\ rt.steps = C6Input
    /\ rt.pc = "transpiled"
    /\ rt.decompose
    /\ rt.num_swaps = 3
    /\ rt.transpiled_depth = 7
    /\ Len(rt.out) = 10

\* b is the next gate after a, among the nodes of dag, on qubit q.  Node ids
\* follow the order of the sorted step list.
NextOnQubit(dag, a, b, q) ==
    /\ a < b
    /\ q \in SeqToSet(dag.nodes[a].qubits) \cap SeqToSet(dag.nodes[b].qubits)
    /\ ~\E c \in DOMAIN dag.nodes : a < c /\ c < b /\ q \in SeqToSet(dag.nodes[c].qubits)

SharedQubits(dag, a, b) ==
    SeqToSet(dag.nodes[a].qubits) \cap SeqToSet(dag.nodes[b].qubits)

\* a step without its timestep
Gate(step) == [step EXCEPT !.timestep = 0]

GateBag(steps) ==
    [g \in {Gate(steps[i]) : i \in 1..Len(steps)} |->
        Cardinality({i \in 1..Len(steps) : Gate(steps[i]) = g})]

OptReturned(run) == opt.pc = "returned" /\ opt.run = run /\ opt.level >= 1

(* C3: the step list optimize_circuit returns at level 1 or 2 leaves the   *)
(* state |0...0> in the same final state as the input step list (X / CNOT  *)
(* / CCNOT / SWAP inputs, whose final state is a basis state), whether the *)
(* returned list is run as returned or sorted by its timesteps.            *)
C3_OptimizedSameFinalState ==
    (OptReturned(1) /\ IsBasisStepList(opt.input)) =>
        \/ ExecuteBasis(opt.out, 1, {}) = ExecuteBasis(opt.input, 1, {})
        \/ ExecuteBasis(SortByTimestep(opt.out), 1, {}) = ExecuteBasis(opt.input, 1, {})

(* C4: a second level-1 run on the list a level-1 run returned removes and *)
(* changes nothing: both runs return the same gates with the same qubits   *)
(* and angles.                                                             *)
C4_LevelOneIdempotent ==
    (OptReturned(2) /\ opt.level = 1) => GateBag(opt.out) = GateBag(opt.out1)

(* C7: GateCancellation removes a pair (a, b) only if, in the DAG the scan *)
(* ran on, b is the next remaining gate after a on every qubit they share; *)
(* X, H, X on one qubit keeps its three gates at level 1.                  *)
C7_CancelOnlyAdjacent ==
    /\ opt.last.kind = "cancel" =>
          \A pr \in opt.last.pairs :
              /\ SharedQubits(opt.last.before, pr[1], pr[2]) # {}
              /\ \A q \in SharedQubits(opt.last.before, pr[1], pr[2]) :
                    NextOnQubit(opt.last.before, pr[1], pr[2], q)
              /\ pr[1] \notin DOMAIN opt.dag.nodes
              /\ pr[2] \notin DOMAIN opt.dag.nodes
    /\ (OptReturned(1) /\ opt.level = 1
            /\ opt.input = StampTimesteps(<<StepX(0), StepH(0), StepX(0)>>)) =>
          [i \in 1..Len(opt.out) |-> Gate(opt.out[i])] = <<StepX(0), StepH(0), StepX(0)>>

\* a second turn of the loop cancels a pair that the first turn made adjacent
C7_Witness ==
    /\ opt.last.kind = "cancel"
    /\ Cardinality(DOMAIN opt.last.before.nodes) = 2
    /\ opt.last.before.node_counter = 4
    /\ opt.dag.nodes = EmptyDict
    /\ opt.run = 1

C9_XOnBasisState ==
    (kern.pc = "ready" /\ kern.read /\ Len(kern.gates) = 1 /\ kern.gates[1][1] = "X") =>
        LET k == kern.gates[1][2][1]
            b == [j \in 1..kern.n |-> IF j = kern.n - k THEN 1 ELSE 0]
        IN  /\ DOMAIN kern.sv_probs = {b}
            /\ ProbValue(kern.sv_probs[b]) = <<1, 0>>

C9_Witness ==
    /\ kern.pc = "ready"
    /\ kern.read
    /\ kern.n = 3
    /\ kern.gates = <<(<<"X", <<0>>>>)>>
    /\ DOMAIN kern.sv_probs = {<<0, 0, 1>>}

(* C10: for a circuit of H, S, SDG, X, Y, Z, CNOT, CZ and SWAP gates, the  *)
(* bitstrings the Clifford kernel's get_probabilities can report, and      *)
(* their frequencies, are the bitstrings and probabilities the state-      *)
(* vector kernel's get_probabilities reports.                              *)
C10_CliffordAgreesWithStatevector ==
    (kern.pc = "ready" /\ kern.read) =>
        /\ DOMAIN kern.cf_probs = DOMAIN kern.sv_probs
        /\ \A b \in DOMAIN kern.sv_probs :
              ProbValue(kern.cf_probs[b]) = ProbValue(kern.sv_probs[b])

(* C5: from a Layout built from an injective mapping, after any sequence of
   set_mapping and swap calls (swaps of unmapped sites included), no call
   raised, l maps to p in logical_to_physical exactly when p maps to l in
   physical_to_logical, and no two logical qubits share a physical qubit. *)
C5_LayoutMutuallyInverse ==
    /\ ~layout.err
    /\ \A l \in DOMAIN layout.l2p :
          /\ layout.l2p[l] \in DOMAIN layout.p2l
          /\ layout.p2l[layout.l2p[l]] = l
    /\ \A p \in DOMAIN layout.p2l :
          /\ layout.p2l[p] \in DOMAIN layout.l2p
          /\ layout.l2p[layout.p2l[p]] = p
    /\ \A a, b \in DOMAIN layout.l2p : layout.l2p[a] = layout.l2p[b] => a = b

\* a swap of one mapped and one unmapped site has just moved a logical qubit
C5_Witness ==
    /\ layoutOp.op = "swap"
    /\ layoutOp.unmapped = 1
    /\ layoutOp.a # layoutOp.b
    /\ layoutOp.a \in DOMAIN layout.p2l \/ layoutOp.b \in DOMAIN layout.p2l
    /\ Cardinality(DOMAIN layout.l2p) >= 2

\* the state the preparation gates build on one qubit
RECURSIVE PreparedState(_, _)
PreparedState(prep, j) ==
    IF j = 0 THEN SvInitialize(1)
    ELSE SvApplyGate(PreparedState(prep, j - 1), prep[j], 0)

\* the register holds classical bits m0, m1 on qubits 0, 1 and `psi` on qubit 2
Qubit2Holds(sv, m0, m1, psi) ==
    /\ sv.k = psi.k
    /\ \A i \in DOMAIN sv.vec :
         sv.vec[i] = IF BitOf(i, 0) = m0 /\ BitOf(i, 1) = m1
                     THEN psi.vec[BitOf(i, 2)]
                     ELSE CZero

VmTeleportDone(prep) ==
    /\ vm.pc \in {"running", "done"}
    /\ vm.instructions = TeleportProgram(prep)
    /\ vm.instruction_pointer = Len(vm.instructions)

(* C11: when the teleportation program has run in the dynamic VM, whatever *)
(* the two measurements gave, qubit 2 is in the state that was prepared on *)
(* qubit 0 (and qubits 0 and 1 are in the measured basis state).           *)
C11_TeleportDeliversPreparedState ==
    \A prep \in VmPreparations :
        VmTeleportDone(prep) =>
            Qubit2Holds(vm.sv, CregGet(vm.creg, 0), CregGet(vm.creg, 1),
                        PreparedState(prep, Len(prep)))

C11_Witness ==
    /\ VmTeleportDone(<<"H", "S">>)
    /\ vm.creg = (0 :> 1) @@ (1 :> 1)
    /\ Qubit2Holds(vm.sv, 1, 1, PreparedState(<<"H", "S">>, 2))

\* the qubit indices a step names
StepQubits(step) ==
    SeqToSet(step.qubit) \cup SeqToSet(Get(step.controls, <<>>))
        \cup SeqToSet(Get(step.targets, <<>>))

\* a step the spec calls invalid: a qubit index outside [0, numQubits), or a
\* CNOT / CZ / CCNOT without controls or without targets
InvalidStep(step, n) ==
    \/ \E q \in StepQubits(step) : q < 0 \/ q >= n
    \/ /\ NormalizeGateType(step.gateType) \in {"CNOT", "CZ", "CCNOT"}
       /\ Get(step.controls, <<>>) = <<>> \/ Get(step.targets, <<>>) = <<>>

(* C12: execute never returns normally for a step list that holds a step   *)
(* naming a qubit outside [0, numQubits) or a CNOT / CZ / CCNOT without    *)
(* controls or targets: such a list ends in an error.                      *)
C12_InvalidStepEndsInError ==
    exec.pc = "returned" =>
        \A j \in 1..Len(exec.circuit_steps) :
            ~InvalidStep(exec.circuit_steps[j], exec.num_qubits)

\* the kernel class that implements a kernel type
KernelClass(kernel_type) ==
    CASE kernel_type = "statevector" -> "StatevectorKernel"
      [] kernel_type = "clifford" -> "CliffordKernel"
      [] OTHER -> "TensorNetworkKernel"

(* C14: above the state-vector cap, a run of execute that goes on to        *)
(* simulate uses the kernel select_kernel chose, or, the choice being the   *)
(* unavailable tensor network, the state-vector kernel with a diagnostic    *)
(* emitted; otherwise it ends in an error.                                  *)
C14_NoSilentStatevectorAboveCap ==
    (exec.pc \in {"running", "returned"} /\ exec.num_qubits > MaxStatevectorQubits) =>
        \/ exec.kernel = KernelClass(exec.kernel_type)
        \/ /\ exec.kernel_type = "tensor_network"
           /\ exec.kernel = "StatevectorKernel"
           /\ exec.diagnostics # <<>>

(* C13: route and transpile never return, as an ordinary result, a routed  *)
(* circuit while gates are still waiting in remaining_gates: a routing     *)
(* that cannot complete ends in an error instead.                          *)
C13_RoutingFailureReported ==
    rt.pc \in {"returned", "transpiled"} => rt.remaining = <<>>

\* gate j of the list has its dependencies satisfied: no earlier gate of the
\* list shares a logical qubit with it
DependenciesSatisfied(gates, j) ==
    \A i \in 1..(j - 1) : SeqToSet(gates[i].qubits) \cap SeqToSet(gates[j].qubits) = {}

(* C15: every gate the router puts in its front layer has its dependencies *)
(* satisfied: it stands in the remaining list at a place where no earlier  *)
(* remaining gate shares a logical qubit with it.                          *)
C15_FrontLayerDependenciesSatisfied ==
    rt.pc = "loop" =>
        \A k \in 1..Len(RtFront) :
            \E j \in 1..Len(rt.remaining) :
                /\ rt.remaining[j] = RtFront[k]
                /\ DependenciesSatisfied(rt.remaining, j)

\* how many gates of the list have this type and these parameters
CountOf(gates, gate_type, params) ==
    Cardinality({i \in 1..Len(gates) :
                    gates[i].gate_type = gate_type /\ gates[i].params = params})

(* C16: on the connected linear map, which holds every qubit the inputs    *)
(* touch, the list route returns holds every input gate exactly once next  *)
(* to the num_swaps inserted SWAPs: as many gates of each type and         *)
(* parameters as the input, plus the inserted SWAPs.                       *)
C16_EveryInputGateRoutedOnce ==
    (RouteDone /\ rt.cmap = "linear") =>
        /\ Len(rt.routed) = Len(rt.gates) + rt.num_swaps
        /\ \A i \in 1..Len(rt.gates) :
             CountOf(rt.routed, rt.gates[i].gate_type, rt.gates[i].params)
                = CountOf(rt.gates, rt.gates[i].gate_type, rt.gates[i].params)
                    + (IF rt.gates[i].gate_type = "SWAP" /\ rt.gates[i].params = <<>>
                       THEN rt.num_swaps ELSE 0)

(* C17: the main loop of route never inserts a SWAP that leaves it where   *)
(* it was: after an inserted SWAP the layout differs from the layout       *)
(* before it (the remaining list being the same), so that the same layout  *)
(* and remaining list do not recur and the loop ends.                      *)
C17_InsertedSwapChangesState ==
    [][(rt.pc = "loop" /\ rt'.num_swaps = rt.num_swaps + 1) =>
            rt'.layout # rt.layout]_vars

(* C18: GateFusion fuses two rotations a, b only if b is the next          *)
(* remaining gate after a on their qubit in the DAG the pass works on.     *)
C18_FuseOnlyAdjacent ==
    opt.last.kind = "fuse" =>
        /\ SharedQubits(opt.last.before, opt.last.a, opt.last.b) # {}
        /\ \A q \in SharedQubits(opt.last.before, opt.last.a, opt.last.b) :
              NextOnQubit(opt.last.before, opt.last.a, opt.last.b, q)

(* C19: GateCancellation cancels two CNOT nodes only when they have the    *)
(* same control and the same target: CNOT(a,b) followed by CNOT(b,a) is    *)
(* not removed.                                                            *)
C19_CnotCancelsOnlySameDirection ==
    opt.last.kind = "cancel" =>
        \A pr \in opt.last.pairs :
            (opt.last.before.nodes[pr[1]].gate_type = "CNOT"
                /\ opt.last.before.nodes[pr[2]].gate_type = "CNOT") =>
                opt.last.before.nodes[pr[1]].qubits = opt.last.before.nodes[pr[2]].qubits

\* the nodes reachable from the nodes of S along successor edges
RECURSIVE DagReach(_, _)
DagReach(dag, S) ==
    LET next == S \cup UNION {dag.nodes[n].successors \cap DOMAIN dag.nodes : n \in S}
    IN  IF next = S THEN S ELSE DagReach(dag, next)

DagBuilt == opt.pc \in {"pass", "dag"}

(* C20: in the DAG from_circuit builds from gates on distinct qubits, and   *)
(* after every remove_node call and every pass turn on it, the successor   *)
(* and predecessor sets name only nodes of the DAG, no node is its own     *)
(* successor or predecessor, and no node is reachable from its successors. *)
C20_DagStaysAcyclic ==
    DagBuilt =>
        \A n \in DOMAIN opt.dag.nodes :
            /\ opt.dag.nodes[n].successors \subseteq DOMAIN opt.dag.nodes
            /\ opt.dag.nodes[n].predecessors \subseteq DOMAIN opt.dag.nodes
            /\ n \notin opt.dag.nodes[n].successors
            /\ n \notin opt.dag.nodes[n].predecessors
            /\ n \notin DagReach(opt.dag, opt.dag.nodes[n].successors)
            /\ \A m \in opt.dag.nodes[n].successors : n \in opt.dag.nodes[m].predecessors
            /\ \A m \in opt.dag.nodes[n].predecessors : n \in opt.dag.nodes[m].successors

\* the middle CNOT pairs of the seven-gate input are gone and the first RZ
\* is wired to the last
C20_Witness ==
    /\ DagBuilt
    /\ DOMAIN opt.dag.nodes = {1, 4, 7}
    /\ 7 \in opt.dag.nodes[1].successors
    /\ opt.dag.nodes[7].predecessors = {1, 4}

\* the position of node n in the list order
PositionOf(order, n) == CHOOSE i \in 1..Len(order) : order[i] = n

\* order lists every node of dag once, each after all its predecessors
IsTopologicalOrder(dag, order) ==
    /\ Len(order) = Cardinality(DOMAIN dag.nodes)
    /\ {order[i] : i \in 1..Len(order)} = DOMAIN dag.nodes
    /\ \A n \in DOMAIN dag.nodes : \A p \in dag.nodes[n].predecessors :
          PositionOf(order, p) < PositionOf(order, n)

\* input_nodes no longer is the set of nodes without predecessor
InputNodesStale(dag) ==
    dag.input_nodes # {n \in DOMAIN dag.nodes : dag.nodes[n].predecessors = {}}

LayerRule(dag, n) ==
    IF dag.nodes[n].predecessors = {} THEN 0
    ELSE MaxOfSet({dag.nodes[p].layer : p \in dag.nodes[n].predecessors}) + 1

(* C22: in every DAG state reached by from_circuit and the optimizer       *)
(* passes, each node's layer is 0 when it has no predecessor and otherwise *)
(* one more than the largest layer among its predecessors, and every step  *)
(* to_circuit writes carries that layer as its timestep.                   *)
C22_LayerIsOnePlusMaxPredecessor ==
    opt.pc = "pass" =>
        /\ \A n \in DOMAIN opt.dag.nodes :
              opt.dag.nodes[n].layer = LayerRule(opt.dag, n)
        /\ \A n \in DOMAIN opt.dag.nodes :
              NodeStep(opt.dag.nodes[n]).timestep = LayerRule(opt.dag, n)

(* C23: in the gate list transpile returns, with or without SWAP           *)
(* decomposition, the timestep is non-decreasing along the list.           *)
C23_TranspiledTimestepsNonDecreasing ==
    (rt.pc = "transpiled" /\ rt.mode = "transpile") =>
        \A i \in 1..(Len(rt.out) - 1) : rt.out[i].timestep <= rt.out[i + 1].timestep

\* the instruction the VM is about to reach
VmNextInstr == vm.instructions[vm.instruction_pointer + 1]

\* classical bit c, read as 0 when never written
VmBit(creg, c) == IF c \in DOMAIN creg THEN creg[c] ELSE 0

(* C24: when the VM reaches an instruction that carries condition (c, v)   *)
(* while classical bit c, read as 0 when never written, differs from v,    *)
(* the step leaves the kernel state and the classical register unchanged   *)
(* and dispatches no instruction, nested body included.                    *)
C24_UnmetConditionSkips ==
    [][(/\ vm.pc = "running"
        /\ vm'.pc = "running"
        /\ vm'.instruction_pointer = vm.instruction_pointer + 1
        /\ VmNextInstr.condition # <<>>
        /\ VmBit(vm.creg, VmNextInstr.condition[1]) # VmNextInstr.condition[2])
       => (/\ vm'.sv = vm.sv
           /\ vm'.creg = vm.creg
           /\ vm'.executed = vm.executed)]_vars

\* after H on qubit 0, an `if` on bit 0 = 1 was reached with the bit never
\* written and skipped
C24_Witness ==
    /\ vm.pc = "running"
    /\ vm.instructions = <<GateInstr("H", <<0>>, <<>>),
                           IfInstr(0, 1, <<GateInstr("X", <<1>>, <<>>),
                                           MeasureInstr(1, 0, <<>>)>>)>>
    /\ vm.instruction_pointer = 2
    /\ vm.executed = 1
    /\ vm.creg = EmptyDict
    /\ vm.sv = SvApplyGate(SvInitialize(2), "H", 0)

\* the controlled gate with the control mask taken as the OR of the control
\* bits: the pair (i, i | 1<<target) is updated exactly when every listed
\* control bit of i is set and the target bit of i is clear
ControlledWithOrMask(sv, gate_type, controls, target) ==
    LET target_gate == IF gate_type \in {"CNOT", "CCNOT"} THEN GATE_MAP["X"]
                       ELSE GATE_MAP["Z"]
        target_mask == Pow2(target)
        on(i) == BitOf(i, target) = 0 /\ \A c \in SeqToSet(controls) : BitOf(i, c) = 1
        new(i) ==
            IF on(i)
            THEN CAdd(CMul(target_gate.m[1][1], sv.vec[i]),
                      CMul(target_gate.m[1][2], sv.vec[i + target_mask]))
            ELSE IF BitOf(i, target) = 1 /\ on(i - target_mask)
            THEN CAdd(CMul(target_gate.m[2][1], sv.vec[i - target_mask]),
                      CMul(target_gate.m[2][2], sv.vec[i]))
            ELSE sv.vec[i]
    IN  [sv EXCEPT !.vec = [i \in DOMAIN sv.vec |-> new(i)]]

\* the gate the kernels were given in this step
KernLastGate == kern'.gates[Len(kern'.gates)]

(* C25: every apply_controlled_gate call on the state-vector kernel, the   *)
(* control list naming a qubit twice included, updates exactly the pairs   *)
(* (i, i | 1<<target) whose i has every listed control bit set and the     *)
(* target bit clear, and leaves every other amplitude as it was.           *)
C25_ControlMaskIsOrOfControls ==
    [][(/\ Len(kern'.gates) = Len(kern.gates) + 1
        /\ KernLastGate[1] \in {"CNOT", "CZ", "CCNOT"})
       => kern'.sv =
            ControlledWithOrMask(kern.sv, KernLastGate[1],
                SubSeq(KernLastGate[2], 1, Len(KernLastGate[2]) - 1),
                KernLastGate[2][Len(KernLastGate[2])])]_vars

(* C26: with a noise model attached, when a gate application (apply_gate,  *)
(* apply_controlled_gate or apply_swap) has returned, post-gate noise has  *)
(* been applied once on each qubit the gate touched, and when measure has  *)
(* returned, no noise has been applied.                                    *)
C26_NoiseAfterEveryGate ==
    (nz.pc = "ready" /\ nz.attached) =>
        /\ nz.last.call \in {"apply_gate", "apply_controlled_gate", "apply_swap"}
              => \A q \in nz.last.qubits : nz.rounds[q] = 1
        /\ nz.last.call = "measure"
              => \A q \in DOMAIN nz.rounds : nz.rounds[q] = 0

(* C27: during one apply_gate call for a circuit gate, post-gate noise is  *)
(* applied at most once to the touched qubit, and the call does not end in *)
(* RecursionError, for every depolarizing rate.                            *)
C27_NoiseOncePerGate ==
    (nz.attached /\ nz.last.call = "apply_gate") =>
        /\ \A q \in nz.last.qubits : nz.rounds[q] <= 1
        /\ nz.pc # "raised"

\* the symplectic product of two tableau rows, on the X and Z bits
SymplecticProduct(n, ra, rb) ==
    Cardinality({q \in 0..(n - 1) :
                    Xor(ra.x[q] * rb.z[q], ra.z[q] * rb.x[q]) = 1}) % 2

(* C28: after initialize(n) and every sequence of H, S, SDG, X, Y, Z, CNOT, *)
(* CZ and SWAP applications, destabilizer row i anticommutes with          *)
(* stabilizer row n+i and every other pair of rows of the tableau          *)
(* commutes.                                                               *)
C28_TableauStaysSymplectic ==
    kern.pc = "ready" =>
        \A a, b \in DOMAIN kern.cf.tableau :
            SymplecticProduct(kern.n, kern.cf.tableau[a], kern.cf.tableau[b])
                = (IF a = b + kern.n \/ b = a + kern.n THEN 1 ELSE 0)

\* H on qubit 0 then CNOT(0, 1): the tableau of the Bell pair
C28_Witness ==
    /\ kern.pc = "ready"
    /\ kern.n = 2
    /\ kern.gates = <<(<<"H", <<0>>>>), (<<"CNOT", <<0, 1>>>>)>>
    /\ kern.cf.tableau[2] = TableauRow(2, {0, 1}, {}, 0)
    /\ kern.cf.tableau[3] = TableauRow(2, {}, {0, 1}, 0)

\* the tableau after gate g on qubit q, twice
CfTwice(cf, g, q) == CfApplyGate(CfApplyGate(cf, g, q), g, q)

(* C29: from every tableau the gates reach, X, Y, Z or H applied twice on  *)
(* one qubit, CNOT, CZ or SWAP applied twice on one pair, and S followed   *)
(* by SDG on one qubit give back the same tableau, phase column included.  *)
C29_InversePairsRestoreTableau ==
    kern.pc = "ready" =>
        /\ \A q \in 0..(kern.n - 1) :
              /\ \A g \in {"X", "Y", "Z", "H"} : CfTwice(kern.cf, g, q) = kern.cf
              /\ CfApplyGate(CfApplyGate(kern.cf, "S", q), "SDG", q) = kern.cf
        /\ \A q1, q2 \in 0..(kern.n - 1) :
              q1 # q2 =>
                /\ \A g \in {"CNOT", "CZ"} :
                      CfApplyControlledGate(
                          CfApplyControlledGate(kern.cf, g, <<q1>>, q2), g, <<q1>>, q2)
                        = kern.cf
                /\ CfApplySwap(CfApplySwap(kern.cf, q1, q2), q1, q2) = kern.cf

\* the qubits reachable from a along at most k adjacency steps
RECURSIVE ReachWithin(_, _, _)
ReachWithin(cm, a, k) ==
    IF k = 0 THEN {a}
    ELSE LET R == ReachWithin(cm, a, k - 1)
         IN  R \cup UNION {cm.adjacency[q] : q \in R \cap DOMAIN cm.adjacency}

\* the number of edges of a shortest path from a to b, Inf when there is none
PathLength(cm, a, b) ==
    LET most == Cardinality(DOMAIN cm.adjacency)
        ks == {k \in 0..most : b \in ReachWithin(cm, a, k)}
    IN  IF ks = {} THEN Inf ELSE CHOOSE k \in ks : \A j \in ks : k <= j

(* C30: on every coupling map, bidirectional or directed, distance(a, b)   *)
(* is the number of edges of a shortest path from a to b along the         *)
(* adjacency and infinity when there is none; shortest_path(a, b) returns  *)
(* distance(a, b) + 1 qubits from a to b, each adjacent to the one before, *)
(* and the empty list when b cannot be reached.                            *)
C30_DistanceIsShortestPathLength ==
    (rt.mode = "topology" /\ rt.pc \in {"measured", "traced"}) =>
        LET cm == rt.topo.cm
            d == PathLength(cm, rt.topo.q1, rt.topo.q2)
            path == rt.topo.path
        IN  /\ rt.topo.distance = d
            /\ rt.pc = "traced" =>
                  IF d = Inf THEN path = <<>>
                  ELSE /\ Len(path) = d + 1
                       /\ path[1] = rt.topo.q1
                       /\ path[Len(path)] = rt.topo.q2
                       /\ \A i \in 1..(Len(path) - 1) :
                             /\ path[i] \in DOMAIN cm.adjacency
                             /\ path[i + 1] \in cm.adjacency[path[i]]

\* a directed map 0 -> 1 -> 2 -> 3: three edges from 0 to 3 and no way back
C30_Witness ==
    /\ rt.mode = "topology"
    /\ rt.pc = "traced"
    /\ rt.topo.cm.edges = {<<0, 1>>, <<1, 2>>, <<2, 3>>}
    /\ \/ rt.topo.q1 = 0 /\ rt.topo.q2 = 3 /\ rt.topo.path = <<0, 1, 2, 3>>
          /\ rt.topo.distance = 3
       \/ rt.topo.q1 = 3 /\ rt.topo.q2 = 0 /\ rt.topo.path = <<>>
          /\ rt.topo.distance = Inf

====
